---- MODULE Spec2Model ----
(***************************************************************************)
(* Synchronization subsystem of devs-manager: the dispatcher               *)
(* (api/routes/team.py), the background run and the orchestrator           *)
(* (services/internal/sync_orchestrator.py), the per-commit worker         *)
(* (services/internal/process.py) and the SyncSession row                  *)
(* (adapters/db/repositories/sync_session_repo.py).                        *)
(***************************************************************************)
EXTENDS Integers, Sequences, FiniteSets, TLC

(***************************************************************************)
(* Bounds of the model and constants of the program.                       *)
(***************************************************************************)
NumCommits == 3
MaxSessions == 4
MaxRepos == 2
MaxThreads == 2
TicksPerSecond == 10
MaxMessageLen == 2
MaxRules == 2
MaxDepth == 2
MaxTeams == 2
CACHE_TTL == 300
\* progress_stream: iterations before the timeout and between heartbeats.
max_retries == 240
HeartbeatEvery == 60
max_workers == 5
max_concurrent_per_team == 3
sprint_days == 14
Now == 20

NoDate == -1
SHAs == 1..NumCommits
Repos == 1..MaxRepos
Threads == 1..MaxThreads
Sessions == 1..MaxSessions

VARIABLES
    requests,   \* POST /team/{id}/sync requests still to arrive
    repos,      \* number of repositories linked to the team
    response,   \* the answer to the latest POST /team/{id}/sync
    upstream,   \* the forge's commit list of the repository (newest first)
    commits,    \* rows of the commits table, one record per row
    row,        \* rows of the sync_sessions table, by session id
    pc,         \* position of each session's background thread
    progress,   \* SyncProgress of each session's orchestrator
    parts,      \* sprint_commits / archive_commits of each run
    results,    \* new_count and the returned {"new", "skipped"} of each partition
    worker,     \* state of the future submitted for each (session, sha)
    collected,  \* futures the as_completed loop has already handled
    raised,     \* the exception caught by _sync_repository_background
    dbUp,       \* whether a unit of work on the session store succeeds
    forge,      \* per session: forge HTTP requests issued, limiter tokens taken,
                \* SHAs whose detail request the forge has failed
    limiter,    \* the shared RateLimiter
    callers,    \* threads calling RateLimiter.acquire
    returns,    \* age in ticks of each acquire return of the last window
    stream,     \* one progress_stream generator and what it has sent
    args,       \* the arguments of a function that is checked on its own
    result,     \* what that function has returned
    fetch,      \* the frame of one get_commits_list call
    current_user, \* who sends the requests: the team's manager or another user
    cache,      \* _check_updates_cache: per team the cached result and its time
    clock,      \* time.time() in seconds
    probes,     \* threads in check_team_updates
    computed    \* per team the result computed last and when

vars == <<requests, repos, response, upstream, commits, row, pc, progress, parts,
          results, worker, collected, raised, dbUp, forge, limiter, callers,
          returns, stream, args, result, fetch, current_user, cache, clock,
          probes, computed>>

\* What a background run and its workers work on.
background == <<requests, repos, response, upstream, commits, row, pc, progress,
                parts, results, worker, collected, raised, dbUp, forge>>

\* What no step of a background run touches.
aside == <<repos, response, limiter, callers, returns, stream, args, result,
           fetch, current_user, cache, clock, probes, computed>>

\* The call of a function of the program that is checked on its own.
call == <<args, result, fetch>>

\* The requests' sender and the state of check_team_updates.
web == <<current_user, cache, clock, probes, computed>>

(***************************************************************************)
(* Data.                                                                   *)
(***************************************************************************)
Terminal == {"completed", "failed", "cancelled"}
Active == {"queued", "running"}
SyncStatus == {"queued", "running", "completed", "failed", "cancelled"}

NoError == [kind |-> "none", sha |-> 0]
FetchError == [kind |-> "fetch", sha |-> 0]
ContributorsError == [kind |-> "contributors", sha |-> 0]
DbError == [kind |-> "db", sha |-> 0]
CommitError(sha) == [kind |-> "commit", sha |-> sha]

\* SyncSessionModel column defaults; "absent" marks an id not yet inserted.
AbsentRow ==
    [status |-> "absent", repository_id |-> 0, total_commits |-> 0, processed_commits |-> 0,
     new_commits |-> 0, current_phase |-> "none", sprint_commits_done |-> FALSE,
     errors |-> <<>>, result |-> <<>>, started_at |-> FALSE,
     completed_at |-> FALSE]

SyncProgress ==
    [total_commits |-> 0, processed_commits |-> 0,
     current_phase |-> "initializing", sprint_commits_done |-> FALSE,
     errors |-> <<>>]

NoResults ==
    [new_count |-> 0,
     sprint |-> [new |-> 0, skipped |-> 0],
     archive |-> [new |-> 0, skipped |-> 0]]

sprint_cutoff == Now - sprint_days

\* One entry of the forge's list: sprint entries first (the list is newest
\* first), the oldest archive entry carries no date, entry `na` no author.
UpstreamList(k, na) ==
    [i \in 1..NumCommits |->
        [sha |-> i,
         date |-> IF i <= k THEN sprint_cutoff
                  ELSE IF i = NumCommits THEN NoDate ELSE sprint_cutoff - 1,
         author |-> i # na]]

UpstreamLists == {UpstreamList(k, na) : k \in 0..NumCommits, na \in 0..NumCommits}

IsSprint(c) == c.date # NoDate /\ c.date >= sprint_cutoff
IsArchive(c) == ~IsSprint(c)

\* Mutant: the total counts the sprint partition only.
DiscoveredTotal_SprintOnly(all) == Len(SelectSeq(all, IsSprint))

DiscoveredTotal(all) == Len(all)

ShasOf(list) == {list[i].sha : i \in 1..Len(list)}

Entry(sha) == upstream[sha]

\* get_existing_commit_shas
get_existing_commit_shas(repo_id) == {c.sha : c \in {d \in commits : d.repo = repo_id}}

\* SyncSessionRepository.create_session
create_session(repository_id) ==
    [AbsentRow EXCEPT !.status = "queued", !.repository_id = repository_id]

\* Mutant: the callback does not pass sprint_commits_done.
update_progress_NoFlag(r, p) ==
    [r EXCEPT !.total_commits = p.total_commits,
              !.processed_commits = p.processed_commits,
              !.current_phase = p.current_phase]

\* Mutant: the callback passes the errors as well.
update_progress_WithErrors(r, p) ==
    [r EXCEPT !.total_commits = p.total_commits,
              !.processed_commits = p.processed_commits,
              !.current_phase = p.current_phase,
              !.sprint_commits_done = p.sprint_commits_done,
              !.errors = p.errors]

\* SyncSessionRepository.update_progress as called by progress_callback
update_progress(r, p) ==
    [r EXCEPT !.total_commits = p.total_commits,
              !.processed_commits = p.processed_commits,
              !.current_phase = p.current_phase,
              !.sprint_commits_done = p.sprint_commits_done]

\* SyncOrchestrator._notify_progress: the callback's failure is swallowed.
Notified(s, p) ==
    IF dbUp THEN [row EXCEPT ![s] = update_progress(@, p)] ELSE row

(***************************************************************************)
(* RateLimiter.  Time is counted in ticks of 0.1 s, the sleep of the wait   *)
(* loop of acquire; last_refill is kept as the time passed since it.       *)
(***************************************************************************)
Min(a, b) == IF a <= b THEN a ELSE b

\* RateLimiter.__init__
RateLimiter(max_requests, time_window_seconds, reserve_tokens) ==
    [max_requests |-> max_requests - reserve_tokens,
     time_window |-> time_window_seconds,
     tokens |-> max_requests - reserve_tokens,
     since_refill |-> 0,
     lock |-> 0,
     min_delay |-> (time_window_seconds * TicksPerSecond) \div max_requests]

\* _global_rate_limiter of api/routes/team.py
global_rate_limiter == RateLimiter(4800, 3600, 200)

\* Small limiters: 2 tokens per second paced at 0.2 s, and 1 token per
\* 2 seconds paced at 0.5 s.
LimiterConfigs == {RateLimiter(5, 1, 3), RateLimiter(4, 2, 3)}

WindowTicks(l) == l.time_window * TicksPerSecond

\* _refill_tokens without the min against the capacity.
refill_tokens_Uncapped(l) ==
    IF l.since_refill >= TicksPerSecond
    THEN [l EXCEPT !.tokens = l.tokens + (l.since_refill * l.max_requests)
                                             \div WindowTicks(l),
                   !.since_refill = 0]
    ELSE l

\* RateLimiter._refill_tokens: int(elapsed * refill_rate) tokens once a
\* second or more has passed, and last_refill = now even when that is 0.
refill_tokens(l) ==
    IF l.since_refill >= TicksPerSecond
    THEN [l EXCEPT !.tokens = Min(l.max_requests,
                                  l.tokens + (l.since_refill * l.max_requests)
                                                 \div WindowTicks(l)),
                   !.since_refill = 0]
    ELSE l

Idle == [at |-> "idle", tokens |-> 0, sleep |-> 0]

\* A limiter nobody is calling.
LimiterAtRest ==
    /\ callers = [t \in Threads |-> Idle]
    /\ returns = <<>>

(***************************************************************************)
(* progress_stream: the snapshot of a row and the events of the channel.   *)
(***************************************************************************)
\* progress_data
Snapshot(s, r) ==
    [session_id |-> s,
     status |-> r.status,
     total_commits |-> r.total_commits,
     processed_commits |-> r.processed_commits,
     new_commits |-> r.new_commits,
     progress_percent |-> IF r.total_commits > 0
                          THEN (r.processed_commits * 100) \div r.total_commits
                          ELSE 0,
     current_phase |-> r.current_phase,
     sprint_commits_done |-> r.sprint_commits_done,
     errors |-> r.errors]

DataEvent(snap) == [event |-> "data", data |-> <<snap>>]
CompleteEvent(snap) == [event |-> "complete", data |-> <<snap>>]
HeartbeatEvent == [event |-> "heartbeat", data |-> <<>>]
TimeoutEvent == [event |-> "timeout", data |-> <<>>]
ErrorEvent == [event |-> "error", data |-> <<>>]

\* The events one step of the generator has put on the wire.
DataEvents(out) == SelectSeq(out, LAMBDA e : e.event = "data")
CompleteEvents(out) == SelectSeq(out, LAMBDA e : e.event = "complete")

\* No subscription: `at` is the generator's position, `loaded` the row object
\* its database session holds, `last_status` the generator's local (empty for
\* None), `out` the events of its latest step, `sent` the snapshot of the
\* latest data event on the wire, `ended` the event the channel was closed
\* with.
NoStream ==
    [at |-> "none", session_id |-> 0, loaded |-> AbsentRow,
     last_status |-> <<>>, retry_count |-> 0, out |-> <<>>, sent |-> <<>>,
     ended |-> "none"]

(***************************************************************************)
(* Initial state: one sync request is about to arrive for a team with one  *)
(* repository, whose oldest k commits were stored by earlier syncs.        *)
(***************************************************************************)
StoredRows(r, k) ==
    {[repo |-> r, sha |-> h, by |-> 0, stage |-> "files"] :
        h \in (NumCommits - k + 1)..NumCommits}

\* get_commits_list is not running.
NoFetch ==
    [at |-> "idle", page |-> 0, attempt |-> 0, pause |-> 0, all_commits |-> <<>>,
     pages |-> 0, stopped |-> "none"]

\* No function is being checked on its own.
NoCall ==
    /\ args = <<>>
    /\ result = <<>>
    /\ fetch = NoFetch

\* check_team_updates: what a call returns is the team and the time of the
\* check.
Teams == 1..MaxTeams

NoUpdates == [team_id |-> 0, checked_at |-> 0]

NoEntry == [data |-> NoUpdates, time |-> -1]

\* A thread outside check_team_updates.
NoProbe == [at |-> "idle", team_id |-> 0, returned |-> NoUpdates, http |-> 0]

\* An empty cache and nobody in check_team_updates.
NoProbes ==
    /\ cache = [team_id \in Teams |-> NoEntry]
    /\ clock = 0
    /\ probes = [t \in Threads |-> NoProbe]
    /\ computed = [team_id \in Teams |-> NoEntry]

\* No session yet: an empty sync_sessions table and no background thread.
NoSessions ==
    /\ response = "none"
    /\ row = [s \in Sessions |-> AbsentRow]
    /\ pc = [s \in Sessions |-> "none"]
    /\ progress = [s \in Sessions |-> SyncProgress]
    /\ parts = [s \in Sessions |-> [sprint |-> <<>>, archive |-> <<>>]]
    /\ results = [s \in Sessions |-> NoResults]
    /\ worker = [s \in Sessions |-> [h \in SHAs |-> "idle"]]
    /\ collected = [s \in Sessions |-> {}]
    /\ raised = [s \in Sessions |-> NoError]
    /\ dbUp = TRUE
    /\ forge = [s \in Sessions |-> [http |-> 0, acquired |-> 0, refused |-> {}]]

Init ==
    /\ requests = 1
    /\ repos = 1
    /\ upstream \in UpstreamLists
    /\ \E k \in 0..NumCommits : commits = StoredRows(1, k)
    /\ NoSessions
    /\ limiter = global_rate_limiter
    /\ LimiterAtRest
    /\ stream = NoStream
    /\ NoCall
    /\ current_user = "manager"
    /\ NoProbes

\* A team with one or more repositories: as many requests as there are ids
\* when every repository is up to date, one request when the first
\* repository has a commit that is not stored yet.
InitGate ==
    /\ repos \in Repos
    /\ upstream \in {UpstreamList(1, 0), UpstreamList(1, 1)}
    /\ \E k \in {NumCommits - 1, NumCommits} :
          /\ commits = StoredRows(1, k)
                          \cup UNION {StoredRows(r, NumCommits) : r \in Repos \ {1}}
          /\ requests = IF k = NumCommits THEN MaxSessions \div repos ELSE 1
    /\ NoSessions
    /\ limiter = global_rate_limiter
    /\ LimiterAtRest
    /\ stream = NoStream
    /\ NoCall
    /\ current_user = "manager"
    /\ NoProbes

\* Two requests for a team with one repository that has one or two commits
\* not stored yet.
InitRerun ==
    /\ requests = 2
    /\ repos = 1
    /\ upstream \in {UpstreamList(1, 0), UpstreamList(1, 1)}
    /\ \E k \in 1..(NumCommits - 1) : commits = StoredRows(1, k)
    /\ NoSessions
    /\ limiter = global_rate_limiter
    /\ LimiterAtRest
    /\ stream = NoStream
    /\ NoCall
    /\ current_user = "manager"
    /\ NoProbes

Raise(s, e) ==
    /\ pc' = [pc EXCEPT ![s] = "handler"]
    /\ raised' = [raised EXCEPT ![s] = e]

Goto(s, where) ==
    /\ pc' = [pc EXCEPT ![s] = where]
    /\ UNCHANGED raised

\* SyncSessionRepository.get_active_by_team
get_active_by_team == {s \in Sessions : row[s].status \in Active}

(***************************************************************************)
(* POST /team/{team_id}/sync: the admission gate, then one create_session  *)
(* and one detached thread per repository linked to the team.              *)
(***************************************************************************)
\* Mutant: the gate compares with > instead of >=.
Admitted_OffByOne(active) == ~(Cardinality(active) > max_concurrent_per_team)

\* The gate: HTTP 429 when len(active_sessions) >= 3.
Admitted(active) == ~(Cardinality(active) >= max_concurrent_per_team)

\* Ids the inserts of one request get: the next `n` unused ones.
UsedIds == Cardinality({s \in Sessions : row[s].status # "absent"})

NextIds(n) == (UsedIds + 1)..(UsedIds + n)

Dispatch ==
    /\ requests > 0
    /\ requests' = requests - 1
    /\ dbUp
    /\ IF Admitted(get_active_by_team)
       THEN /\ NextIds(repos) \subseteq Sessions
            /\ row' = [s \in Sessions |->
                          IF s \in NextIds(repos)
                          THEN create_session(s - UsedIds) ELSE row[s]]
            /\ pc' = [s \in Sessions |->
                          IF s \in NextIds(repos) THEN "spawned" ELSE pc[s]]
            /\ response' = "started"
       ELSE /\ response' = "too_many"
            /\ UNCHANGED <<row, pc>>
    /\ UNCHANGED <<repos, upstream, commits, progress, parts, results, worker,
                   collected, raised, dbUp, forge, limiter, callers, returns, stream,
                   call, web>>

(***************************************************************************)
(* _sync_repository_background: queued -> running.                         *)
(***************************************************************************)
mark_running(r) == [r EXCEPT !.status = "running", !.started_at = TRUE]

StartRun(s) ==
    /\ pc[s] = "spawned"
    /\ IF dbUp
       THEN /\ row' = [row EXCEPT ![s] = mark_running(@)]
            /\ Goto(s, "started")
       ELSE /\ Raise(s, DbError)
            /\ UNCHANGED row
    /\ UNCHANGED <<aside, forge, requests, upstream, commits, progress, parts, results, worker,
                   collected, dbUp>>

(***************************************************************************)
(* SyncOrchestrator.sync_repository, phase 1.                              *)
(***************************************************************************)
BeginSync(s) ==
    /\ pc[s] = "started"
    /\ progress' = [progress EXCEPT ![s].current_phase = "fetching_list"]
    /\ row' = Notified(s, progress'[s])
    /\ Goto(s, "fetch")
    /\ UNCHANGED <<aside, forge, requests, upstream, commits, parts, results, worker, collected, dbUp>>

\* The split of the discovered list, in list order.
Partition(all) ==
    [sprint |-> SelectSeq(all, IsSprint), archive |-> SelectSeq(all, IsArchive)]

ListFetchOk(s) ==
    /\ pc[s] = "fetch"
    /\ parts' = [parts EXCEPT ![s] = Partition(upstream)]
    /\ progress' = [progress EXCEPT ![s].total_commits = DiscoveredTotal(upstream)]
    /\ row' = Notified(s, progress'[s])
    /\ Goto(s, "prepare")
    /\ forge' = [forge EXCEPT ![s].http = @ + 1]
    /\ UNCHANGED <<aside, requests, upstream, commits, results, worker, collected, dbUp>>

\* Mutant: the error is recorded and the run goes on with an empty list.
ListFetchFail_Swallowed(s) ==
    /\ pc[s] = "fetch"
    /\ progress' = [progress EXCEPT ![s].errors = Append(@, FetchError)]
    /\ row' = Notified(s, progress'[s])
    /\ pc' = [pc EXCEPT ![s] = "prepare"]
    /\ forge' = [forge EXCEPT ![s].http = @ + 1]
    /\ UNCHANGED <<aside, requests, upstream, commits, parts, results, worker,
                   collected, raised, dbUp>>

\* get_commits_list raised after its retries: record, notify, re-raise.
ListFetchFail(s) ==
    /\ pc[s] = "fetch"
    /\ progress' = [progress EXCEPT ![s].errors = Append(@, FetchError)]
    /\ row' = Notified(s, progress'[s])
    /\ Raise(s, FetchError)
    /\ forge' = [forge EXCEPT ![s].http = @ + 1]
    /\ UNCHANGED <<aside, requests, upstream, commits, parts, results, worker, collected, dbUp>>

\* _prepare_contributors: the forge call and the upserts succeed ...
PrepareContributorsOk(s) ==
    /\ pc[s] = "prepare"
    /\ IF dbUp THEN Goto(s, "sprint_phase") ELSE Raise(s, DbError)
    /\ forge' = [forge EXCEPT ![s].http = @ + 1]
    /\ UNCHANGED <<aside, requests, upstream, commits, row, progress, parts, results, worker,
                   collected, dbUp>>

\* ... or get_contributors / the mapper raises, which nothing catches.
PrepareContributorsFail(s) ==
    /\ pc[s] = "prepare"
    /\ Raise(s, ContributorsError)
    /\ forge' = [forge EXCEPT ![s].http = @ + 1]
    /\ UNCHANGED <<aside, requests, upstream, commits, row, progress, parts, results, worker,
                   collected, dbUp>>

SetPhase(s, from, phase, to) ==
    /\ pc[s] = from
    /\ progress' = [progress EXCEPT ![s].current_phase = phase]
    /\ row' = Notified(s, progress'[s])
    /\ Goto(s, to)
    /\ UNCHANGED <<aside, forge, requests, upstream, commits, parts, results, worker, collected, dbUp>>

SetPhaseSprint(s) == SetPhase(s, "sprint_phase", "processing_sprint", "sprint_submit")

(***************************************************************************)
(* SyncOrchestrator._process_commits_parallel.                             *)
(***************************************************************************)
\* Mutant: the stored SHAs are not filtered out.
commits_to_process_Unfiltered(repo_id, list) == list

\* commits_to_process: the entries whose SHA is not stored yet.
commits_to_process(repo_id, list) ==
    SelectSeq(list, LAMBDA c : c.sha \notin get_existing_commit_shas(repo_id))

ProcessCommitsStart(s, from, part, to) ==
    /\ pc[s] = from
    /\ IF dbUp
       THEN LET todo == commits_to_process(row[s].repository_id, parts[s][part])
            IN /\ worker' = [worker EXCEPT ![s] =
                      [h \in SHAs |-> IF h \in ShasOf(todo) THEN "submitted" ELSE @[h]]]
               /\ results' = [results EXCEPT
                      ![s].new_count = 0,
                      ![s][part].skipped = Len(parts[s][part]) - Len(todo)]
               /\ Goto(s, to)
       ELSE /\ Raise(s, DbError)
            /\ UNCHANGED <<worker, results>>
    /\ UNCHANGED <<aside, forge, requests, upstream, commits, row, progress, parts, collected, dbUp>>

SubmitSprint(s) == ProcessCommitsStart(s, "sprint_submit", "sprint", "sprint_pool")

SubmitArchive(s) == ProcessCommitsStart(s, "archive_submit", "archive", "archive_pool")

InPool(s) == pc[s] \in {"sprint_pool", "archive_pool"}

Finished == {"created", "noauthor", "raised"}

\* _process_single_commit_wrapper: a pool thread takes the task and
\* rate_limiter.acquire() returns.
WorkerAcquire(s, h) ==
    /\ InPool(s)
    /\ worker[s][h] = "submitted"
    /\ Cardinality({g \in SHAs : worker[s][g] = "acquired"}) < max_workers
    /\ worker' = [worker EXCEPT ![s][h] = "acquired"]
    /\ forge' = [forge EXCEPT ![s].acquired = @ + 1]
    /\ UNCHANGED <<aside, requests, upstream, commits, row, pc, progress, parts, results,
                   collected, raised, dbUp>>

\* Mutant: the entry without author is stored as a bare row.
WorkerNoAuthor_Stored(s, h) ==
    /\ worker[s][h] = "acquired"
    /\ ~Entry(h).author
    /\ commits' = commits \cup {[repo |-> row[s].repository_id, sha |-> h, by |-> s,
                                 stage |-> "base"]}
    /\ worker' = [worker EXCEPT ![s][h] = "noauthor"]
    /\ UNCHANGED <<aside, forge, requests, upstream, row, pc, progress, parts, results,
                   collected, raised, dbUp>>

\* process_single_commit on a list entry without author: nothing fetched.
WorkerNoAuthor(s, h) ==
    /\ worker[s][h] = "acquired"
    /\ ~Entry(h).author
    /\ worker' = [worker EXCEPT ![s][h] = "noauthor"]
    /\ UNCHANGED <<aside, forge, requests, upstream, commits, row, pc, progress, parts, results,
                   collected, raised, dbUp>>

\* The rows one run of process_single_commit leaves behind, by how far it got:
\* create, update_details and bulk_create each commit on their own.
RowsWritten(s, h, stage) ==
    IF stage = "none"
    THEN {}
    ELSE {[repo |-> row[s].repository_id, sha |-> h, by |-> s, stage |-> stage]}

\* Mutant: the worker reports created without any of its writes.
WorkerCreated_NoWrite(s, h) ==
    /\ worker[s][h] = "acquired"
    /\ Entry(h).author
    /\ worker' = [worker EXCEPT ![s][h] = "created"]
    /\ forge' = [forge EXCEPT ![s].http = @ + 1]
    /\ UNCHANGED <<aside, requests, upstream, commits, row, pc, progress, parts,
                   results, collected, raised, dbUp>>

\* process_single_commit: detail fetch, enrichment, the three writes.  This is
\* the body as written once the call of the enricher has returned; the binding
\* of that call is modelled by process_single_commit further down.
WorkerCreated(s, h) ==
    /\ worker[s][h] = "acquired"
    /\ Entry(h).author
    /\ commits' = commits \cup RowsWritten(s, h, "files")
    /\ worker' = [worker EXCEPT ![s][h] = "created"]
    /\ forge' = [forge EXCEPT ![s].http = @ + 1]
    /\ UNCHANGED <<aside, requests, upstream, row, pc, progress, parts, results, collected,
                   raised, dbUp>>

\* process_single_commit raises: in get_commit or the enrichment (no row),
\* in update_details (base row only) or in bulk_create (enriched row, no files).
WorkerRaised(s, h) ==
    /\ worker[s][h] = "acquired"
    /\ Entry(h).author
    /\ \E stage \in {"none", "base", "enriched"} :
           commits' = commits \cup RowsWritten(s, h, stage)
    /\ worker' = [worker EXCEPT ![s][h] = "raised"]
    /\ forge' = [forge EXCEPT ![s].http = @ + 1]
    /\ UNCHANGED <<aside, requests, upstream, row, pc, progress, parts, results, collected,
                   raised, dbUp>>

\* The as_completed loop, result branch and except branch.
OnWorkerResult_Restarts(p) == [p EXCEPT !.processed_commits = 0]

OnWorkerResult(p) == [p EXCEPT !.processed_commits = @ + 1]

\* Mutant: a failed commit is recorded but not counted as processed.
OnWorkerRaised_NotCounted(p, h) == [p EXCEPT !.errors = Append(@, CommitError(h))]

OnWorkerRaised(p, h) ==
    [p EXCEPT !.errors = Append(@, CommitError(h)), !.processed_commits = @ + 1]

\* Mutant: future.result() is not guarded, a worker's exception ends the run.
Collect_Propagates(s, h) ==
    /\ InPool(s)
    /\ worker[s][h] \in Finished
    /\ h \notin collected[s]
    /\ collected' = [collected EXCEPT ![s] = @ \cup {h}]
    /\ IF worker[s][h] = "raised"
       THEN /\ Raise(s, CommitError(h))
            /\ UNCHANGED <<progress, results, row>>
       ELSE /\ progress' = [progress EXCEPT ![s] = OnWorkerResult(@)]
            /\ results' = [results EXCEPT ![s].new_count =
                   IF worker[s][h] = "created" THEN @ + 1 ELSE @]
            /\ row' = Notified(s, progress'[s])
            /\ UNCHANGED <<pc, raised>>
    /\ UNCHANGED <<aside, forge, requests, upstream, commits, parts, worker, dbUp>>

Collect(s, h) ==
    /\ InPool(s)
    /\ worker[s][h] \in Finished
    /\ h \notin collected[s]
    /\ collected' = [collected EXCEPT ![s] = @ \cup {h}]
    /\ progress' = [progress EXCEPT ![s] =
           IF worker[s][h] = "raised" THEN OnWorkerRaised(@, h) ELSE OnWorkerResult(@)]
    /\ results' = [results EXCEPT ![s].new_count =
           IF worker[s][h] = "created" THEN @ + 1 ELSE @]
    /\ row' = Notified(s, progress'[s])
    /\ UNCHANGED <<aside, forge, requests, upstream, commits, pc, parts, worker, raised, dbUp>>

\* Mutant: the partition returns without waiting for its futures.
PoolDrained_NoWait(s) == TRUE

\* The executor's with-block ends: every submitted future has been handled.
PoolDrained(s) == \A h \in SHAs : worker[s][h] # "idle" => h \in collected[s]

MarkSprintDone(s) ==
    /\ pc[s] = "sprint_pool"
    /\ PoolDrained(s)
    /\ results' = [results EXCEPT ![s].sprint.new = results[s].new_count]
    /\ progress' = [progress EXCEPT ![s].sprint_commits_done = TRUE]
    /\ row' = Notified(s, progress'[s])
    /\ Goto(s, "archive_phase")
    /\ UNCHANGED <<aside, forge, requests, upstream, commits, parts, worker, collected, dbUp>>

SetPhaseArchive(s) ==
    SetPhase(s, "archive_phase", "processing_archive", "archive_submit")

SetPhaseComplete(s) ==
    /\ pc[s] = "archive_pool"
    /\ PoolDrained(s)
    /\ results' = [results EXCEPT ![s].archive.new = results[s].new_count]
    /\ progress' = [progress EXCEPT ![s].current_phase = "complete"]
    /\ row' = Notified(s, progress'[s])
    /\ Goto(s, "finalize")
    /\ UNCHANGED <<aside, forge, requests, upstream, commits, parts, worker, collected, dbUp>>

\* The dict sync_repository returns.
SyncResult(s) ==
    [total_commits |-> progress[s].total_commits,
     processed_commits |-> progress[s].processed_commits,
     sprint_commits |-> Len(parts[s].sprint),
     archive_commits |-> Len(parts[s].archive),
     new_commits |-> results[s].sprint.new + results[s].archive.new,
     errors |-> progress[s].errors]

(***************************************************************************)
(* _sync_repository_background: finalization and the except branch.        *)
(***************************************************************************)
mark_completed(r, res) ==
    [r EXCEPT !.status = "completed", !.completed_at = TRUE,
              !.result = <<res>>, !.new_commits = res.new_commits,
              !.errors = IF res.errors # <<>> THEN res.errors ELSE @]

mark_failed(r, e) ==
    [r EXCEPT !.status = "failed", !.completed_at = TRUE, !.errors = <<e>>]

\* Mutant: a statement after the finalization commit raises inside the try.
Finalize_FallsIntoHandler(s) ==
    /\ pc[s] = "finalize"
    /\ row' = [row EXCEPT ![s] = mark_completed(@, SyncResult(s))]
    /\ Raise(s, DbError)
    /\ UNCHANGED <<aside, forge, requests, upstream, commits, progress, parts, results,
                   worker, collected, dbUp>>

Finalize(s) ==
    /\ pc[s] = "finalize"
    /\ IF dbUp
       THEN /\ row' = [row EXCEPT ![s] = mark_completed(@, SyncResult(s))]
            /\ Goto(s, "exited")
       ELSE /\ Raise(s, DbError)
            /\ UNCHANGED row
    /\ UNCHANGED <<aside, forge, requests, upstream, commits, progress, parts, results, worker,
                   collected, dbUp>>

\* except Exception: write failed; a failure of that write is only logged.
HandleFailure(s) ==
    /\ pc[s] = "handler"
    /\ row' = IF dbUp THEN [row EXCEPT ![s] = mark_failed(@, raised[s])] ELSE row
    /\ Goto(s, "exited")
    /\ UNCHANGED <<aside, forge, requests, upstream, commits, progress, parts, results, worker,
                   collected, dbUp>>

(***************************************************************************)
(* Environment: a write of status = cancelled to the row of a running       *)
(* session, and the session store becoming unavailable and available.      *)
(***************************************************************************)
Cancel(s) ==
    /\ row[s].status = "running"
    /\ row' = [row EXCEPT ![s].status = "cancelled"]
    /\ UNCHANGED <<aside, forge, requests, upstream, commits, pc, progress, parts, results, worker,
                   collected, raised, dbUp>>

DbOutage ==
    /\ dbUp
    /\ dbUp' = FALSE
    /\ UNCHANGED <<aside, forge, requests, upstream, commits, row, pc, progress, parts, results,
                   worker, collected, raised>>

DbRecover ==
    /\ ~dbUp
    /\ dbUp' = TRUE
    /\ UNCHANGED <<aside, forge, requests, upstream, commits, row, pc, progress, parts, results,
                   worker, collected, raised>>

(***************************************************************************)
(* Specifications.                                                         *)
(***************************************************************************)
Run(s) ==
    \/ StartRun(s)
    \/ BeginSync(s)
    \/ ListFetchOk(s)
    \/ ListFetchFail(s)
    \/ PrepareContributorsOk(s)
    \/ PrepareContributorsFail(s)
    \/ SetPhaseSprint(s)
    \/ SubmitSprint(s)
    \/ MarkSprintDone(s)
    \/ SetPhaseArchive(s)
    \/ SubmitArchive(s)
    \/ SetPhaseComplete(s)
    \/ Finalize(s)
    \/ HandleFailure(s)

Work(s, h) ==
    \/ WorkerAcquire(s, h)
    \/ WorkerNoAuthor(s, h)
    \/ WorkerCreated(s, h)
    \/ WorkerRaised(s, h)
    \/ Collect(s, h)

Next ==
    \/ Dispatch
    \/ \E s \in Sessions : Run(s)
    \/ \E s \in Sessions, h \in SHAs : Work(s, h)

\* The program with a session store that always answers.
Spec == Init /\ [][Next]_vars

\* The program under several requests for one team.
SpecGate == InitGate /\ [][Next]_vars

\* The program under two requests for the same repository, in any interleaving.
SpecOverlap == InitRerun /\ [][Next]_vars

\* The same with each request arriving after the runs before it have ended.
NoRunInFlight == \A s \in Sessions : pc[s] \in {"none", "exited"}

DispatchAgain == NoRunInFlight /\ Dispatch

NextRerun ==
    \/ DispatchAgain
    \/ \E s \in Sessions : Run(s)
    \/ \E s \in Sessions, h \in SHAs : Work(s, h)

SpecRerun == InitRerun /\ [][NextRerun]_vars

(***************************************************************************)
(* RateLimiter.acquire, called by any number of threads.                   *)
(***************************************************************************)
\* After _refill_tokens, under the lock: wait 0.1 s while the tokens do not
\* suffice, else take them and sleep the pacing delay, still under the lock.
TakeOrWait(t, l) ==
    IF l.tokens < callers[t].tokens
    THEN /\ limiter' = l
         /\ callers' = [callers EXCEPT ![t].at = "waiting", ![t].sleep = 1]
    ELSE /\ limiter' = [l EXCEPT !.tokens = @ - callers[t].tokens]
         /\ callers' = [callers EXCEPT ![t].at = "pacing", ![t].sleep = l.min_delay]

\* A thread calls acquire(n) and reaches `with self.lock`.
Call(t) ==
    /\ callers[t].at = "idle"
    /\ \E n \in 1..limiter.max_requests :
          callers' = [callers EXCEPT ![t] = [at |-> "blocked", tokens |-> n, sleep |-> 0]]
    /\ UNCHANGED <<background, limiter, returns, stream, call, web>>

\* The critical section entered without the lock.
Enter_Unlocked(t) ==
    /\ callers[t].at = "blocked"
    /\ TakeOrWait(t, [refill_tokens(limiter) EXCEPT !.lock = t])
    /\ UNCHANGED <<background, returns, stream, call, web>>

\* The lock is granted: _refill_tokens and the first test of the loop.
Enter(t) ==
    /\ callers[t].at = "blocked"
    /\ limiter.lock = 0
    /\ TakeOrWait(t, [refill_tokens(limiter) EXCEPT !.lock = t])
    /\ UNCHANGED <<background, returns, stream, call, web>>

\* time.sleep(0.1) is over: _refill_tokens and the test of the loop again.
Wake(t) ==
    /\ callers[t].at = "waiting"
    /\ callers[t].sleep = 0
    /\ TakeOrWait(t, refill_tokens(limiter))
    /\ UNCHANGED <<background, returns, stream, call, web>>

\* The pacing sleep is over: the lock is released and acquire returns.
Return(t) ==
    /\ callers[t].at = "pacing"
    /\ callers[t].sleep = 0
    /\ limiter' = [limiter EXCEPT !.lock = 0]
    /\ callers' = [callers EXCEPT ![t] = Idle]
    /\ returns' = Append(returns, 0)
    /\ UNCHANGED <<background, stream, call, web>>

\* 0.1 s of wall-clock time passes, once every thread whose sleep is over
\* has gone on; a return older than the window is dropped.
Tick ==
    /\ \A t \in Threads : callers[t].at \in {"waiting", "pacing"} => callers[t].sleep > 0
    /\ limiter' = [limiter EXCEPT !.since_refill = Min(@ + 1, WindowTicks(limiter))]
    /\ callers' = [t \in Threads |->
                      [callers[t] EXCEPT !.sleep = IF @ > 0 THEN @ - 1 ELSE 0]]
    /\ returns' = LET aged == [i \in 1..Len(returns) |-> returns[i] + 1]
                  IN SelectSeq(aged, LAMBDA a : a < WindowTicks(limiter))
    /\ UNCHANGED <<background, stream, call, web>>

Acquire(t) == Call(t) \/ Enter(t) \/ Wake(t) \/ Return(t)

NextLimiter == Tick \/ \E t \in Threads : Acquire(t)

\* One limiter of a small configuration and no sync in progress.
InitLimiter ==
    /\ requests = 0
    /\ repos = 1
    /\ upstream = UpstreamList(0, 0)
    /\ commits = {}
    /\ NoSessions
    /\ limiter \in LimiterConfigs
    /\ LimiterAtRest
    /\ stream = NoStream
    /\ NoCall
    /\ current_user = "manager"
    /\ NoProbes

\* Time advances, a sleeping thread wakes up, the lock is granted fairly.
FairLimiter ==
    /\ WF_vars(Tick)
    /\ \A t \in Threads :
          WF_vars(Wake(t)) /\ WF_vars(Return(t)) /\ SF_vars(Enter(t))

SpecLimiter == InitLimiter /\ [][NextLimiter]_vars /\ FairLimiter

\* The program with status = cancelled written to in-flight sessions.
NextCancel == Next \/ \E s \in Sessions : Cancel(s)

SpecCancel == Init /\ [][NextCancel]_vars

\* The program with a session store that may fail and recover.
NextDb == Next \/ DbOutage \/ DbRecover

SpecDb == Init /\ [][NextDb]_vars

(***************************************************************************)
(* GET /sync/progress/{session_id}: one subscriber of one session.         *)
(***************************************************************************)
\* The endpoint answers 404 unless the session exists, and hands its database
\* session, with the row it has loaded, to the generator.
Subscribe(s) ==
    /\ stream.at = "none"
    /\ row[s].status # "absent"
    /\ stream' = [NoStream EXCEPT !.at = "polling", !.session_id = s, !.loaded = row[s]]
    /\ UNCHANGED <<background, limiter, callers, returns, call, web>>

\* progress_data != last_status
differs_Always(progress_data, last_status) == TRUE

differs(progress_data, last_status) == last_status # <<progress_data>>

\* sync_session.status in [completed, failed, cancelled]
is_final_OnlyCompleted(status) == status = "completed"

is_final(status) == status \in Terminal

\* while retry_count < max_retries
while_condition_Forever(retry_count) == TRUE

while_condition(retry_count) == retry_count < max_retries

\* What one iteration of the loop yields for the snapshot it has built.
Yielded(progress_data, last_status, retry_count) ==
    (IF differs(progress_data, last_status)
     THEN <<DataEvent(progress_data)>> ELSE <<>>)
    \o (IF is_final(progress_data.status)
        THEN <<CompleteEvent(progress_data)>>
        ELSE IF retry_count % HeartbeatEvery = 0 /\ retry_count > 0
             THEN <<HeartbeatEvent>> ELSE <<>>)

\* One iteration of the loop. Session.get answers from the objects the
\* database session holds or from the table: `seen` is either.
Poll ==
    /\ stream.at = "polling"
    /\ while_condition(stream.retry_count)
    /\ \E seen \in {row[stream.session_id], stream.loaded} :
          IF seen.status = "absent"
          THEN stream' = [stream EXCEPT !.at = "closed", !.out = <<ErrorEvent>>,
                                        !.ended = "error"]
          ELSE LET progress_data == Snapshot(stream.session_id, seen)
                   out == Yielded(progress_data, stream.last_status, stream.retry_count)
                   final == is_final(progress_data.status)
               IN stream' = [stream EXCEPT
                      !.loaded = seen,
                      !.last_status = IF differs(progress_data, @)
                                      THEN <<progress_data>> ELSE @,
                      !.out = out,
                      !.sent = IF DataEvents(out) # <<>>
                               THEN DataEvents(out)[Len(DataEvents(out))].data ELSE @,
                      !.retry_count = IF final THEN @ ELSE @ + 1,
                      !.at = IF final THEN "closed" ELSE @,
                      !.ended = IF final THEN "complete" ELSE @]
    /\ UNCHANGED <<background, limiter, callers, returns, call, web>>

\* The loop has run max_retries times without a final status.
StreamTimeout ==
    /\ stream.at = "polling"
    /\ ~while_condition(stream.retry_count)
    /\ stream.retry_count >= max_retries
    /\ stream' = [stream EXCEPT !.at = "closed", !.out = <<TimeoutEvent>>,
                                !.ended = "timeout"]
    /\ UNCHANGED <<background, limiter, callers, returns, call, web>>

progress_stream == Poll \/ StreamTimeout

\* One request for a repository with one or two commits not stored yet, and
\* a subscriber that may arrive at any time.
InitStream ==
    /\ requests = 1
    /\ repos = 1
    /\ upstream \in {UpstreamList(1, 0), UpstreamList(1, 1)}
    /\ \E k \in 1..2 : commits = StoredRows(1, NumCommits - k)
    /\ NoSessions
    /\ limiter = global_rate_limiter
    /\ LimiterAtRest
    /\ stream = NoStream
    /\ NoCall
    /\ current_user = "manager"
    /\ NoProbes

NextStream ==
    \/ Next
    \/ \E s \in Sessions : Subscribe(s)
    \/ progress_stream

SpecStream == InitStream /\ [][NextStream]_vars

(***************************************************************************)
(* HeuristicCommitClassifier.detect.  A Python str is the sequence of its   *)
(* characters; a value that may be a str or a dict carries its type.        *)
(***************************************************************************)
Str(s) == [type |-> "str", value |-> s]
Dict(d) == [type |-> "dict", value |-> d]

\* Python's == on two such values
PyEq(a, b) == a.type = b.type /\ a.value = b.value

\* dict.get(key, default)
Get(d, key, default) == IF key \in DOMAIN d THEN d[key] ELSE default

UpperCase == <<"A", "B", "C", "D", "E", "F", "G", "H", "I", "J", "K", "L", "M",
               "N", "O", "P", "Q", "R", "S", "T", "U", "V", "W", "X", "Y", "Z">>
LowerCase == <<"a", "b", "c", "d", "e", "f", "g", "h", "i", "j", "k", "l", "m",
               "n", "o", "p", "q", "r", "s", "t", "u", "v", "w", "x", "y", "z">>
Digits == {"0", "1", "2", "3", "4", "5", "6", "7", "8", "9"}
WordChars == {UpperCase[i] : i \in 1..26} \cup {LowerCase[i] : i \in 1..26}
                 \cup Digits \cup {"_"}
WhiteSpace == {" ", "\t", "\n"}

\* str.lower()
lower(s) ==
    [i \in 1..Len(s) |->
        IF \E j \in 1..26 : UpperCase[j] = s[i]
        THEN LowerCase[CHOOSE j \in 1..26 : UpperCase[j] = s[i]]
        ELSE s[i]]

\* sub in s
Contains(sub, s) ==
    \E i \in 0..(Len(s) - Len(sub)) : SubSeq(s, i + 1, i + Len(sub)) = sub

\* s.startswith(prefix)
StartsWith(s, prefix) ==
    Len(prefix) <= Len(s) /\ SubSeq(s, 1, Len(prefix)) = prefix

\* re.search(r"^\w+:\s", msg): the length of the word it matches, 0 for no match
ScopeMatch(msg) ==
    LET words == {i \in 1..Len(msg) : \A j \in 1..i : msg[j] \in WordChars}
        n == Cardinality(words)
    IN IF n > 0 /\ Len(msg) >= n + 2 /\ msg[n + 1] = ":" /\ msg[n + 2] \in WhiteSpace
       THEN n ELSE 0

\* re.search(r"#\d+", msg) is not None
HasIssueNumber(msg) ==
    \E i \in 1..(Len(msg) - 1) : msg[i] = "#" /\ msg[i + 1] \in Digits

\* any keyword of the rule is in the message
RuleHits(rule, msg) ==
    \E k \in 1..Len(Get(rule, "keywords", <<>>)) :
        Contains(lower(rule.keywords[k]), msg)

\* The loop over the rules: what matched_rule holds after it.
RECURSIVE ScanRules(_, _, _, _)
ScanRules(rules, msg, matched_rule, highest_priority) ==
    IF rules = <<>>
    THEN matched_rule
    ELSE LET rule == Head(rules)
         IN IF RuleHits(rule, msg) /\ Get(rule, "priority", 0) > highest_priority
            THEN ScanRules(Tail(rules), msg, Dict(rule), Get(rule, "priority", 0))
            ELSE ScanRules(Tail(rules), msg, matched_rule, highest_priority)

NO_CATEGORY == <<"N", "O", " ", "C", "A", "T", "E", "G", "O", "R", "Y">>

detect(commit, analysis_settings) ==
    LET msg == lower(commit.message)
        commit_rules == Get(analysis_settings, "commit_rules", <<>>)
        rules == Get(commit_rules, "rules", <<>>)
        default_category == Get(commit_rules, "default_category", NO_CATEGORY)
        category == ScanRules(rules, msg, Str(default_category), -1)
    IN [commit_type |-> category,
        is_conventional |-> ~PyEq(category, Str(NO_CATEGORY)),
        conventional_type |-> category,
        conventional_scope |-> IF ScopeMatch(msg) > 0
                               THEN SubSeq(msg, 1, ScopeMatch(msg))
                               ELSE <<"n", "o">>,
        is_breaking_change |-> StartsWith(msg, <<"!">>)
                                  \/ StartsWith(msg, <<"b", "r", "e", "a", "k", "i", "n", "g">>),
        parents_count |-> commit.parents,
        is_merge_commit |-> commit.parents > 1,
        is_pr_commit |-> \/ Contains(<<"m", "e", "r", "g", "e", " ", "p", "u", "l", "l", " ", "r", "e", "q", "u", "e", "s", "t">>, msg)
                         \/ Contains(<<"m", "e", "r", "g", "e", " ", "m", "r">>, msg)
                         \/ HasIssueNumber(msg)
                         \/ Contains(<<"p", "u", "l", "l", " ", "r", "e", "q", "u", "e", "s", "t">>, msg),
        files_changed |-> IF commit.files > 0 THEN <<commit.files>> ELSE <<>>,
        is_revert_commit |-> \/ StartsWith(msg, <<"r", "e", "v", "e", "r", "t">>)
                             \/ StartsWith(msg, <<"r", "o", "l", "l", "b", "a", "c", "k">>)
                             \/ Contains(<<"t", "h", "i", "s", " ", "r", "e", "v", "e", "r", "t", "s", " ", "c", "o", "m", "m", "i", "t">>, msg)]

\* The messages and settings the classifier is checked on.
RECURSIVE SeqsUpTo(_, _)
SeqsUpTo(S, n) ==
    IF n = 0 THEN {<<>>}
    ELSE SeqsUpTo(S, n - 1)
            \cup {Append(s, x) : s \in {q \in SeqsUpTo(S, n - 1) : Len(q) = n - 1}, x \in S}

MessageChars == {"f", "A", ":", " "}

ExampleMessage == <<"f", "i", "x", ":", " ", "a", "d", "d", " ", "m", "i", "s", "s", "i", "n", "g", " ", "n", "u", "l", "l", " ", "c", "h", "e", "c", "k">>

Messages == SeqsUpTo(MessageChars, MaxMessageLen) \cup {ExampleMessage}

Bugfix == [name |-> "Bugfix", category |-> <<"f", "i", "x">>, keywords |-> <<<<"f", "i", "x">>>>, priority |-> 99]
Feature == [name |-> "Feature", category |-> <<"f", "e", "a", "t">>, keywords |-> <<<<"a", "d", "d">>, <<"a">>>>, priority |-> 95]
Docs == [name |-> "Docs", category |-> <<"d", "o", "c", "s">>, keywords |-> <<<<"F">>>>, priority |-> 95]
Chore == [name |-> "Chore", category |-> <<"c", "h", "o", "r", "e">>, keywords |-> <<<<":", " ">>>>]

RuleLists ==
    {rules \in SeqsUpTo({Bugfix, Feature, Docs, Chore}, MaxRules) :
        \A i, j \in 1..Len(rules) : rules[i] = rules[j] => i = j}

CommitRules ==
    {[rules |-> rules] : rules \in RuleLists}
        \cup {[rules |-> rules, default_category |-> d] :
                 rules \in RuleLists, d \in {<<"o", "t", "h", "e", "r">>, NO_CATEGORY}}

ClassifierInputs ==
    {[commit |-> [message |-> m, parents |-> p, files |-> 1],
      analysis_settings |-> [commit_rules |-> c]] :
        m \in Messages, p \in {1, 2}, c \in CommitRules}

InitClassifier ==
    /\ requests = 0
    /\ repos = 1
    /\ upstream = UpstreamList(0, 0)
    /\ commits = {}
    /\ NoSessions
    /\ limiter = global_rate_limiter
    /\ LimiterAtRest
    /\ stream = NoStream
    /\ args \in ClassifierInputs
    /\ result = <<>>
    /\ fetch = NoFetch
    /\ current_user = "manager"
    /\ NoProbes

Detect ==
    /\ "commit" \in DOMAIN args
    /\ result = <<>>
    /\ result' = <<detect(args.commit, args.analysis_settings)>>
    /\ UNCHANGED <<background, limiter, callers, returns, stream, args, fetch, web>>

SpecClassifier == InitClassifier /\ [][Detect]_vars

(***************************************************************************)
(* _deep_merge.  A document is a mapping from keys to values; a value is a  *)
(* nested document (type dict) or anything else.  The heap is the sequence  *)
(* of the dict objects that exist, a dict value in the heap is the address  *)
(* of its object.                                                           *)
(***************************************************************************)
Number(n) == [type |-> "int", value |-> n]
Boolean(b) == [type |-> "bool", value |-> b]
List(l) == [type |-> "list", value |-> l]

\* isinstance(v, dict)
IsDict(v) == v.type = "dict"

\* d[key] = v
Put(d, key, v) == [k \in DOMAIN d \cup {key} |-> IF k = key THEN v ELSE d[k]]

\* The document held by the object at an address.
RECURSIVE Value(_, _)
Value(heap, at) ==
    [k \in DOMAIN heap[at] |->
        IF IsDict(heap[at][k]) THEN Dict(Value(heap, heap[at][k].value))
        ELSE heap[at][k]]

\* New objects holding a document (json.loads, a module-level literal).
RECURSIVE Store(_, _)
RECURSIVE StoreKeys(_, _, _, _)
Store(heap, doc) ==
    LET filled == StoreKeys(heap, doc, DOMAIN doc, <<>>)
    IN [heap |-> Append(filled.heap, filled.obj), at |-> Len(filled.heap) + 1]

StoreKeys(heap, doc, keys, obj) ==
    IF keys = {}
    THEN [heap |-> heap, obj |-> obj]
    ELSE LET key == CHOOSE k \in keys : TRUE
         IN IF IsDict(doc[key])
            THEN LET sub == Store(heap, doc[key].value)
                 IN StoreKeys(sub.heap, doc, keys \ {key}, Put(obj, key, Dict(sub.at)))
            ELSE StoreKeys(heap, doc, keys \ {key}, Put(obj, key, doc[key]))

\* Mutant: result = base
deepcopy_Alias(heap, at) == [heap |-> heap, at |-> at]

\* copy.deepcopy
deepcopy(heap, at) == Store(heap, Value(heap, at))

RECURSIVE deep_merge(_, _, _)
RECURSIVE MergeItems(_, _, _, _)
\* _deep_merge(base, override): the heap after it and the address it returns
deep_merge(heap, base, override) ==
    LET copy == deepcopy(heap, base)
    IN MergeItems(copy.heap, copy.at, override, DOMAIN copy.heap[override])

\* for key, val in override.items()
MergeItems(heap, res, override, keys) ==
    IF keys = {}
    THEN [heap |-> heap, at |-> res]
    ELSE LET key == CHOOSE k \in keys : TRUE
             val == heap[override][key]
         IN IF key \in DOMAIN heap[res] /\ IsDict(heap[res][key]) /\ IsDict(val)
            THEN LET sub == deep_merge(heap, heap[res][key].value, val.value)
                 IN MergeItems([sub.heap EXCEPT ![res] = Put(@, key, Dict(sub.at))],
                               res, override, keys \ {key})
            ELSE MergeItems([heap EXCEPT ![res] = Put(@, key, val)],
                            res, override, keys \ {key})

DEFAULT_WORKFLOW_CONFIG ==
    [sprint |-> Dict([enabled |-> Boolean(FALSE), duration_days |-> Number(14)]),
     working_hours |-> Dict([start |-> Number(9), end |-> Number(18), timezone |-> Str(<<"U", "T", "C">>)]),
     working_days |-> List(<<1, 2, 3, 4, 5>>)]

\* The stored documents the merge is checked on: nested to MaxDepth, over
\* two keys, one of them a mapping in the defaults.
OverrideKeys == {"sprint", "enabled"}

RECURSIVE Documents(_)
Documents(depth) ==
    IF depth = 0
    THEN {<<>>}
    ELSE LET values == {Boolean(TRUE)} \cup {Dict(d) : d \in Documents(depth - 1)}
         IN UNION {[keys -> values] : keys \in SUBSET OverrideKeys}

MergeInputs ==
    {LET base == Store(<<>>, DEFAULT_WORKFLOW_CONFIG)
         stored == Store(base.heap, X)
     IN [heap |-> stored.heap, base |-> base.at, override |-> stored.at] :
        X \in Documents(MaxDepth)}

InitMerge ==
    /\ requests = 0
    /\ repos = 1
    /\ upstream = UpstreamList(0, 0)
    /\ commits = {}
    /\ NoSessions
    /\ limiter = global_rate_limiter
    /\ LimiterAtRest
    /\ stream = NoStream
    /\ args \in MergeInputs
    /\ result = <<>>
    /\ fetch = NoFetch
    /\ current_user = "manager"
    /\ NoProbes

\* _deep_merge(defaults, X), then _deep_merge(defaults, what that returned).
DeepMerge ==
    /\ "override" \in DOMAIN args
    /\ Len(result) < 2
    /\ result' = IF result = <<>>
                 THEN <<deep_merge(args.heap, args.base, args.override)>>
                 ELSE Append(result, deep_merge(result[1].heap, args.base, result[1].at))
    /\ UNCHANGED <<background, limiter, callers, returns, stream, args, fetch, web>>

SpecMerge == InitMerge /\ [][DeepMerge]_vars

(***************************************************************************)
(* GET /team/{id}/check-updates, called by any number of threads.          *)
(***************************************************************************)
\* _check_updates_cache[team_id]
cache_key(team_id) == team_id

\* Mutant: an entry of exactly the TTL's age is still served
is_cached_Late(entry, now) == entry.time >= 0 /\ now - entry.time <= CACHE_TTL

\* team_id in _check_updates_cache and time.time() - cached_time < _CACHE_TTL
is_cached(entry, now) == entry.time >= 0 /\ now - entry.time < CACHE_TTL

\* The call arrives: a cached result is returned at once; otherwise the team,
\* the token and the repositories are looked up, and a lookup that fails
\* raises.
CheckUpdatesBegin(t, team_id) ==
    /\ probes[t].at \in {"idle", "returned", "raised"}
    /\ LET entry == cache[cache_key(team_id)]
           probe == [NoProbe EXCEPT !.team_id = team_id]
       IN IF is_cached(entry, clock)
          THEN probes' = [probes EXCEPT ![t] =
                   [probe EXCEPT !.at = "returned", !.returned = entry.data]]
          ELSE \E found \in BOOLEAN :
                  probes' = [probes EXCEPT ![t] =
                      [probe EXCEPT !.at = IF found THEN "checking" ELSE "raised"]]
    /\ UNCHANGED <<background, limiter, callers, returns, stream, call,
                   current_user, cache, clock, computed>>

\* One forge request per repository, then the result is cached and returned.
CheckUpdatesFinish(t) ==
    /\ probes[t].at = "checking"
    /\ LET data == [team_id |-> probes[t].team_id, checked_at |-> clock]
       IN /\ cache' = [cache EXCEPT ![cache_key(probes[t].team_id)] =
                          [data |-> data, time |-> clock]]
          /\ computed' = [computed EXCEPT ![probes[t].team_id] =
                             [data |-> data, time |-> clock]]
          /\ probes' = [probes EXCEPT ![t].at = "returned", ![t].returned = data,
                                      ![t].http = @ + repos]
    /\ UNCHANGED <<background, limiter, callers, returns, stream, call,
                   current_user, clock>>

\* Half of the TTL passes, up to the moment the first entry expires.
ClockStep == CACHE_TTL \div 2

MaxClock == CACHE_TTL

ClockTick ==
    /\ clock + ClockStep <= MaxClock
    /\ clock' = clock + ClockStep
    /\ UNCHANGED <<background, limiter, callers, returns, stream, call,
                   current_user, cache, probes, computed>>

check_team_updates(t) ==
    \/ \E team_id \in Teams : CheckUpdatesBegin(t, team_id)
    \/ CheckUpdatesFinish(t)

InitCache ==
    /\ requests = 0
    /\ repos = 1
    /\ upstream = UpstreamList(0, 0)
    /\ commits = {}
    /\ NoSessions
    /\ limiter = global_rate_limiter
    /\ LimiterAtRest
    /\ stream = NoStream
    /\ NoCall
    /\ current_user = "manager"
    /\ NoProbes

NextCache == ClockTick \/ \E t \in Threads : check_team_updates(t)

SpecCache == InitCache /\ [][NextCache]_vars

(***************************************************************************)
(* Properties.                                                             *)
(***************************************************************************)
SkippedExisting(s) == results[s].sprint.skipped + results[s].archive.skipped

SprintShas == {h \in SHAs : IsSprint(Entry(h))}
ArchiveShas == SHAs \ SprintShas

Durable(repo_id, h) == \E c \in commits : c.repo = repo_id /\ c.sha = h

Occurrences(seq, e) == Cardinality({i \in 1..Len(seq) : seq[i] = e})

ForwardStep(a, b) ==
    \/ a = b
    \/ a = "absent" /\ b = "queued"
    \/ a = "queued" /\ b = "running"
    \/ a = "running" /\ b \in Terminal

\* C1: a session's status only moves queued -> running -> {completed, failed,
\* cancelled}: it never leaves a terminal status and never returns to queued.
C1_StatusForward ==
    [][\A s \in Sessions : ForwardStep(row[s].status, row'[s].status)]_vars

C1_Witness ==
    \E s \in Sessions :
        row[s].status = "completed" /\ row[s].started_at /\ row[s].processed_commits > 0

\* C2: every run that ends leaves its session in status completed or failed
\* (no session stays queued or running once its thread is gone).
C2_EndedRunIsTerminal ==
    \A s \in Sessions : pc[s] = "exited" => row[s].status \in {"completed", "failed"}

\* C3: processed_commits <= total_commits, in the orchestrator's progress
\* and in every pair of values written to the row.
C3_ProcessedWithinTotal ==
    \A s \in Sessions :
        /\ progress[s].processed_commits <= progress[s].total_commits
        /\ row[s].processed_commits <= row[s].total_commits

C3_Witness ==
    \E s \in Sessions :
        /\ row[s].processed_commits = NumCommits
        /\ row[s].total_commits = NumCommits
        /\ \E h \in ArchiveShas : h \in collected[s]

CountersAgree(s) ==
    /\ row[s].processed_commits = row[s].total_commits - SkippedExisting(s)
    /\ row[s].new_commits <= row[s].processed_commits

C5_SprintDrainedFirst ==
    \A s \in Sessions :
        (\E h \in ArchiveShas : worker[s][h] # "idle") =>
            /\ \A g \in SprintShas : worker[s][g] \in Finished \cup {"idle"}
            /\ Cardinality({g \in SprintShas : worker[s][g] # "idle"})
                   + results[s].sprint.skipped = Cardinality(SprintShas)

C5_Witness ==
    \E s \in Sessions :
        /\ \E h \in ArchiveShas : worker[s][h] = "acquired"
        /\ \E g \in SprintShas : worker[s][g] = "raised"
        /\ \E g \in SprintShas : worker[s][g] = "created"

SprintFlag(s) == row[s].sprint_commits_done \/ progress[s].sprint_commits_done

C7_SprintFlagOnce ==
    [][\A s \in Sessions :
          /\ row[s].sprint_commits_done => row'[s].sprint_commits_done
          /\ progress[s].sprint_commits_done => progress'[s].sprint_commits_done
          /\ (~progress[s].sprint_commits_done /\ progress'[s].sprint_commits_done) =>
                 /\ pc[s] = "sprint_pool"
                 /\ \A h \in SHAs : worker[s][h] # "idle" => h \in collected[s]
                 /\ progress'[s].current_phase = "processing_sprint"
          /\ (~row[s].sprint_commits_done /\ row'[s].sprint_commits_done) =>
                 row'[s].current_phase = "processing_sprint"
          /\ row'[s].current_phase \in {"processing_archive", "complete"} =>
                 row'[s].sprint_commits_done]_vars

C7_Witness ==
    \E s \in Sessions :
        /\ row[s].sprint_commits_done
        /\ row[s].current_phase = "processing_archive"
        /\ \E h \in SprintShas : h \in collected[s]

RaisedShas(s) == {h \in SHAs : worker[s][h] = "raised"}
CreatedShas(s) == {h \in SHAs : worker[s][h] = "created"}
SubmittedShas(s) == {h \in SHAs : worker[s][h] # "idle"}

\* C8: a worker that raises adds one error with its SHA and still counts as
\* processed, never ends the run, and the session completes with new_commits
\* counting the workers that succeeded and every submitted commit handled.
C8_WorkerFailureIsolated ==
    \A s \in Sessions :
        /\ \A h \in RaisedShas(s) :
              h \in collected[s] => Occurrences(progress[s].errors, CommitError(h)) = 1
        /\ progress[s].processed_commits = Cardinality(collected[s])
        /\ raised[s].kind # "commit"
        /\ row[s].status = "failed" => RaisedShas(s) = {}
        /\ row[s].status = "completed" =>
              /\ row[s].errors = progress[s].errors
              /\ {row[s].errors[i].sha : i \in 1..Len(row[s].errors)} = RaisedShas(s)
              /\ row[s].new_commits = Cardinality(CreatedShas(s))
              /\ row[s].processed_commits = Cardinality(SubmittedShas(s))
              /\ SubmittedShas(s) = collected[s]
              /\ Cardinality(SubmittedShas(s)) + SkippedExisting(s) = NumCommits

C8_Witness ==
    \E s \in Sessions :
        /\ row[s].status = "completed"
        /\ \E b \in SprintShas :
              /\ worker[s][b] = "raised"
              /\ \E a \in SprintShas : worker[s][a] = "created"
              /\ \E c \in ArchiveShas : worker[s][c] = "created"
        /\ row[s].new_commits = 2
        /\ Len(row[s].errors) = 1

\* C9: a failed list fetch ends the session in failed with the error and
\* completed_at on the row; nothing was partitioned, prepared, submitted or
\* written for it.
C9_ListFetchFailure ==
    \A s \in Sessions :
        Occurrences(progress[s].errors, FetchError) > 0 =>
            /\ pc[s] \in {"handler", "exited"}
            /\ raised[s] = FetchError
            /\ parts[s] = [sprint |-> <<>>, archive |-> <<>>]
            /\ progress[s].total_commits = 0
            /\ \A h \in SHAs : worker[s][h] = "idle"
            /\ \A c \in commits : c.by # s
            /\ pc[s] = "exited" =>
                  /\ row[s].status = "failed"
                  /\ row[s].errors = <<FetchError>>
                  /\ row[s].completed_at
                  /\ row[s].total_commits = 0

C9_Witness ==
    \E s \in Sessions :
        /\ pc[s] = "exited"
        /\ raised[s] = FetchError
        /\ row[s].status = "failed"

\* C10: once the status of an in-flight session is cancelled it stays
\* cancelled and the run submits no further worker.
C10_CancelledIsKept ==
    [][\A s \in Sessions :
          row[s].status = "cancelled" =>
              /\ row'[s].status = "cancelled"
              /\ \A h \in SHAs : worker[s][h] = "idle" => worker'[s][h] = "idle"]_vars

\* C11: a request that finds 3 or more active sessions is answered with the
\* too-many error and leaves every session row and every thread as it was.
C11_RejectedWhenFull ==
    [][(requests' < requests
          /\ Cardinality(get_active_by_team) >= max_concurrent_per_team) =>
             /\ response' = "too_many"
             /\ row' = row
             /\ pc' = pc]_vars

C11_Witness ==
    /\ response = "too_many"
    /\ Cardinality(get_active_by_team) = max_concurrent_per_team
    /\ \E s \in Sessions : row[s].status = "absent"

\* C12: at most max_concurrent_per_team sessions of the team are queued or
\* running.
C12_ActiveWithinLimit ==
    Cardinality(get_active_by_team) <= max_concurrent_per_team

AddedBy(s) == {c \in commits : c.by = s}

C16_WindowCap == Len(returns) <= limiter.max_requests

\* C17: every call of acquire(n) with n <= capacity returns.
C17_AcquireReturns ==
    \A t \in Threads : (callers[t].at # "idle") ~> (callers[t].at = "idle")

\* C18: every forge HTTP request of a run is preceded by an acquire of its
\* own: a run has issued no more requests than it has taken tokens.
C18_RequestAfterAcquire ==
    \A s \in Sessions : forge[s].http <= forge[s].acquired

\* A step of the generator that is an iteration of its loop.
PollStep ==
    /\ stream.at = "polling"
    /\ stream.retry_count < max_retries
    /\ stream' # stream

\* C19: a poll puts at most one data event on the wire, it carries the
\* snapshot computed at that poll, it is there only when that snapshot
\* differs from the snapshot of the data event before it, and the first poll
\* always puts one.
C19_DataOnlyOnChange ==
    [][PollStep /\ stream'.ended # "error" =>
          LET snap == Snapshot(stream.session_id, stream'.loaded)
              data == DataEvents(stream'.out)
          IN /\ Len(data) <= 1
             /\ data # <<>> => data[1] = DataEvent(snap) /\ stream.sent # <<snap>>
             /\ stream.retry_count = 0 => data # <<>>]_vars

\* A later poll has put a changed snapshot on the wire.
C19_Witness ==
    /\ stream.retry_count >= 2
    /\ DataEvents(stream.out) # <<>>
    /\ stream.sent[1].processed_commits > 0

\* C20: a poll that finds the session completed, failed or cancelled puts
\* exactly one complete event with that snapshot on the wire, as the last
\* event of the poll, and closes; nothing follows a complete event.
C20_CompleteClosesStream ==
    [][/\ PollStep /\ stream'.loaded.status \in {"completed", "failed", "cancelled"} =>
            LET snap == Snapshot(stream.session_id, stream'.loaded)
                out == stream'.out
            IN /\ Len(CompleteEvents(out)) = 1
               /\ out[Len(out)] = CompleteEvent(snap)
               /\ stream'.at = "closed"
               /\ stream'.ended = "complete"
       /\ stream.ended = "complete" => stream' = stream]_vars

\* A stream closed by a complete event at its last permitted poll.
C20_Witness ==
    /\ stream.ended = "complete"
    /\ stream.retry_count = max_retries - 1
    /\ stream.out = <<DataEvent(Snapshot(stream.session_id, row[stream.session_id])),
                      CompleteEvent(Snapshot(stream.session_id, row[stream.session_id]))>>

\* The snapshots one step of the generator has put on the wire.
SnapshotsOf(out) ==
    {out[i].data[1] : i \in {j \in 1..Len(out) : out[j].event \in {"data", "complete"}}}

\* C21: the processed_commits of a snapshot put on the wire is never below
\* the processed_commits of the data event before it.
C21_ProcessedNeverDecreases ==
    [][PollStep /\ stream.sent # <<>> =>
          \A snap \in SnapshotsOf(stream'.out) :
              snap.processed_commits >= stream.sent[1].processed_commits]_vars

\* A later poll has put the second processed commit on the wire while the
\* run goes on.
C21_Witness ==
    /\ stream.at = "polling"
    /\ stream.retry_count >= 3
    /\ DataEvents(stream.out) # <<>>
    /\ stream.sent[1].processed_commits = 2
    /\ stream.sent[1].status = "running"

\* What a closed stream has ended with, read from its last event.
LastEvent(out) == out[Len(out)].event

\* C22: a stream makes at most max_retries polls, each of which closes it
\* or counts one up; the step after the last of them puts a timeout event on
\* the wire and closes; a closed stream has ended with exactly one of
\* complete, timeout and error, nothing follows, and a timeout is never on a
\* stream that ended with complete.
C22_StreamTerminates ==
    /\ [](stream.retry_count <= 240)
    /\ [](stream.at = "closed" =>
            /\ stream.ended \in {"complete", "timeout", "error"}
            /\ LastEvent(stream.out) = stream.ended
            /\ stream.ended = "timeout" =>
                   stream.retry_count = 240 /\ stream.out = <<TimeoutEvent>>
            /\ stream.ended = "complete" => stream.retry_count < 240)
    /\ [][/\ stream.at = "polling" /\ stream' # stream =>
                IF stream.retry_count = 240
                THEN stream'.ended = "timeout"
                ELSE \/ stream'.at = "closed"
                     \/ stream'.retry_count = stream.retry_count + 1
          /\ stream.at = "closed" => stream' = stream]_vars

\* A stream closed by a timeout while its session is still running.
C22_Witness ==
    /\ stream.ended = "timeout"
    /\ row[stream.session_id].status = "running"

\* C23: a heartbeat is put on the wire only after 60 polls without a data
\* event: a poll that puts a data event on the wire puts no heartbeat.
C23_HeartbeatOnlyWhenQuiet ==
    (\E i \in 1..Len(stream.out) : stream.out[i].event = "heartbeat") =>
        DataEvents(stream.out) = <<>>

\* The classifier has returned for a commit and its settings.
Detected == "commit" \in DOMAIN args /\ result # <<>>

\* C24: the classifier's commit_type is the configured default_category
\* exactly when its is_conventional is false.
C24_ConventionalIffNotDefault ==
    Detected =>
        LET default_category ==
                Get(args.analysis_settings.commit_rules, "default_category", NO_CATEGORY)
        IN PyEq(result[1].commit_type, Str(default_category))
               <=> ~result[1].is_conventional

\* The rules with a keyword that is a substring of the lowercased message,
\* and the first of those of the highest priority.
MatchingRules(rules, msg) == {i \in 1..Len(rules) : RuleHits(rules[i], msg)}

BestRule(rules, msg) ==
    CHOOSE i \in MatchingRules(rules, msg) :
        \A j \in MatchingRules(rules, msg) :
            \/ Get(rules[j], "priority", 0) < Get(rules[i], "priority", 0)
            \/ Get(rules[j], "priority", 0) = Get(rules[i], "priority", 0) /\ i <= j

\* C25: commit_type is the category of the first matching rule of the highest
\* priority, or default_category when no rule matches; the example message
\* with the rules Bugfix, Feature is of type fix, scope fix, conventional.
C25_CategoryOfBestRule ==
    Detected =>
        LET commit_rules == args.analysis_settings.commit_rules
            msg == lower(args.commit.message)
        IN /\ PyEq(result[1].commit_type,
                   IF MatchingRules(commit_rules.rules, msg) = {}
                   THEN Str(Get(commit_rules, "default_category", NO_CATEGORY))
                   ELSE Str(commit_rules.rules[BestRule(commit_rules.rules, msg)].category))
           /\ (args.commit.message = ExampleMessage
                   /\ commit_rules.rules = <<Bugfix, Feature>>) =>
                  /\ PyEq(result[1].commit_type, Str(<<"f", "i", "x">>))
                  /\ result[1].conventional_scope = <<"f", "i", "x">>
                  /\ result[1].is_conventional

\* The merge as the rule states it: a key that holds a mapping on both sides
\* is merged recursively, otherwise the override's value wins.
RECURSIVE Merged(_, _)
Merged(base, override) ==
    [k \in DOMAIN base \cup DOMAIN override |->
        IF k \notin DOMAIN override THEN base[k]
        ELSE IF k \in DOMAIN base /\ IsDict(base[k]) /\ IsDict(override[k])
             THEN Dict(Merged(base[k].value, override[k].value))
             ELSE override[k]]

\* C26: merge(defaults, X) is the document of the rule, it is defaults for
\* X = {}, merging it over the defaults again returns an equal document, and
\* no object that existed before a merge, the defaults among them, is
\* changed by it.
C26_MergeIdempotent ==
    ("override" \in DOMAIN args /\ result # <<>>) =>
        LET X == Value(args.heap, args.override)
        IN /\ \A i \in 1..Len(result) :
                 /\ Value(result[i].heap, result[i].at) = Merged(DEFAULT_WORKFLOW_CONFIG, X)
                 /\ Value(result[i].heap, result[1].at) = Value(result[1].heap, result[1].at)
                 /\ SubSeq(result[i].heap, 1, Len(args.heap)) = args.heap
                 /\ Value(result[i].heap, args.base) = DEFAULT_WORKFLOW_CONFIG
           /\ X = <<>> => Value(result[1].heap, result[1].at) = DEFAULT_WORKFLOW_CONFIG

\* Both merges done for a document that overrides a key inside a mapping of
\* the defaults.
C26_Witness ==
    /\ "override" \in DOMAIN args
    /\ Len(result) = 2
    /\ LET X == Value(args.heap, args.override)
       IN /\ "sprint" \in DOMAIN X
          /\ IsDict(X.sprint)
          /\ "enabled" \in DOMAIN X.sprint.value
          /\ Value(result[2].heap, result[2].at).sprint.value.enabled = Boolean(TRUE)
          /\ Value(result[2].heap, result[2].at).sprint.value.duration_days = Number(14)

enrich_parameters ==
    <<"commit_model", "commit_entity", "scope_type", "scope_id", "session">>

\* The positional arguments of the call in process_single_commit.
enrich_arguments == <<"commit_obj", "commit_dto", "settings", "session">>

\* A call binds when every parameter gets an argument and none is left over;
\* otherwise Python raises TypeError before the body runs.
Binds(parameters, arguments) == Len(arguments) = Len(parameters)

\* process_single_commit on an entry with author: get_commit answers, the
\* files are filtered, the enricher is called; the three writes follow when
\* that call returns.
process_single_commit(s, h) ==
    /\ worker[s][h] = "acquired"
    /\ Entry(h).author
    /\ forge' = [forge EXCEPT ![s].http = @ + 1]
    /\ IF Binds(enrich_parameters, enrich_arguments)
       THEN /\ commits' = commits \cup RowsWritten(s, h, "files")
            /\ worker' = [worker EXCEPT ![s][h] = "created"]
       ELSE /\ worker' = [worker EXCEPT ![s][h] = "raised"]
            /\ UNCHANGED commits
    /\ UNCHANGED <<aside, requests, upstream, row, pc, progress, parts, results, collected,
                   raised, dbUp>>

\* Every listed commit has an author; the newest k are sprint commits.
AuthoredLists == {UpstreamList(k, 0) : k \in 0..NumCommits}

InitFirstSync ==
    /\ requests = 1
    /\ repos = 1
    /\ upstream \in AuthoredLists
    /\ commits = {}
    /\ NoSessions
    /\ limiter = global_rate_limiter
    /\ LimiterAtRest
    /\ stream = NoStream
    /\ NoCall
    /\ current_user = "manager"
    /\ NoProbes

\* sync_repository without the branches of a failing forge or database.
RunFirstSync(s) ==
    \/ StartRun(s)
    \/ BeginSync(s)
    \/ ListFetchOk(s)
    \/ PrepareContributorsOk(s)
    \/ SetPhaseSprint(s)
    \/ SubmitSprint(s)
    \/ MarkSprintDone(s)
    \/ SetPhaseArchive(s)
    \/ SubmitArchive(s)
    \/ SetPhaseComplete(s)
    \/ Finalize(s)

WorkFirstSync(s, h) ==
    \/ WorkerAcquire(s, h)
    \/ process_single_commit(s, h)
    \/ Collect(s, h)

NextFirstSync ==
    \/ Dispatch
    \/ \E s \in Sessions : RunFirstSync(s)
    \/ \E s \in Sessions, h \in SHAs : WorkFirstSync(s, h)

SpecFirstSync == InitFirstSync /\ [][NextFirstSync]_vars

\* C28: the first sync of a repository with NumCommits authored commits and
\* a forge that answers every call ends completed with one row per SHA,
\* new_commits = processed_commits = NumCommits and no error.
C28_FirstSyncStoresAll ==
    \A s \in Sessions :
        pc[s] = "exited" =>
            /\ row[s].status = "completed"
            /\ {c.sha : c \in commits} = SHAs
            /\ Cardinality(commits) = NumCommits
            /\ row[s].new_commits = NumCommits
            /\ row[s].processed_commits = NumCommits
            /\ row[s].errors = <<>>


(***************************************************************************)
(* POST /team/{team_id}/sync by any authenticated user with a stored       *)
(* forge token: the team's manager or another user.                        *)
(***************************************************************************)
Users == {"manager", "member"}

InitAuth ==
    /\ requests = 1
    /\ repos = 1
    /\ upstream \in UpstreamLists
    /\ \E k \in 0..NumCommits : commits = StoredRows(1, k)
    /\ NoSessions
    /\ limiter = global_rate_limiter
    /\ LimiterAtRest
    /\ stream = NoStream
    /\ NoCall
    /\ current_user \in Users
    /\ NoProbes

\* sync_team_repos never compares team.manager_id with current_user.id, so
\* Dispatch is the handler for either caller.
SpecAuth == InitAuth /\ [][Next]_vars

\* C29: a dispatch by a caller who is not the team's manager creates no
\* SyncSession row and starts no background run.
C29_OnlyManagerDispatches ==
    current_user # "manager" =>
        \A s \in Sessions : row[s].status = "absent" /\ pc[s] = "none"


(***************************************************************************)
(* sync_repository: the loop that splits the discovered list, on the date  *)
(* strings of the list entries.  A date string is its wall-clock reading   *)
(* `at` and its zone suffix; the text is "iso" for a well-formed string,   *)
(* "garbled" for any other non-empty string, "empty" for "" and "missing"  *)
(* when the entry carries no date.                                         *)
(***************************************************************************)
DateString(text, at, zone) == [text |-> text, at |-> at, zone |-> zone]

MissingDate == DateString("missing", 0, "none")
EmptyDate == DateString("empty", 0, "none")
GarbledDate == DateString("garbled", 0, "none")

\* Hours east of UTC of a zone suffix, in the unit of `at`.
utcoffset(zone) == IF zone = "+01:00" THEN 1 ELSE 0

\* commit_date_str.replace("Z", "+00:00")
replace_Z(date) == IF date.zone = "Z" THEN [date EXCEPT !.zone = "+00:00"] ELSE date

\* datetime.fromisoformat: ValueError on anything but an ISO string with a
\* numeric offset or none; the value is aware exactly when it has an offset.
fromisoformat(date) ==
    IF date.text # "iso" \/ date.zone = "Z"
    THEN [raised |-> "ValueError", aware |-> FALSE, instant |-> 0]
    ELSE [raised |-> "none", aware |-> date.zone # "none",
          instant |-> date.at - utcoffset(date.zone)]

\* Mutant: the cutoff itself is archive.
at_or_after_Strict(commit_date, cutoff) == commit_date > cutoff

\* commit_date >= sprint_cutoff
at_or_after(commit_date, cutoff) == commit_date >= cutoff

\* One pass of the loop body: the list the entry is appended to.  A falsy
\* date string takes the else branch; ValueError of the parse and TypeError
\* of comparing a naive value with the aware cutoff take the except branch.
append_to(commit_json) ==
    IF commit_json.date.text \in {"missing", "empty"}
    THEN "archive"
    ELSE LET commit_date == fromisoformat(replace_Z(commit_json.date))
         IN  IF commit_date.raised # "none" THEN "archive"
             ELSE IF ~commit_date.aware THEN "archive"
             ELSE IF at_or_after(commit_date.instant, sprint_cutoff) THEN "sprint"
             ELSE "archive"

\* The for loop over all_commits_list from entry i on.
RECURSIVE split(_, _, _)
split(all_commits_list, i, lists) ==
    IF i > Len(all_commits_list)
    THEN lists
    ELSE LET commit_json == all_commits_list[i]
         IN  split(all_commits_list, i + 1,
                   IF append_to(commit_json) = "sprint"
                   THEN [lists EXCEPT !.sprint = Append(@, commit_json)]
                   ELSE [lists EXCEPT !.archive = Append(@, commit_json)])

\* The date strings tried: around the cutoff in UTC and one hour east of it.
DateStrings ==
    {MissingDate, EmptyDate, GarbledDate}
        \cup {DateString("iso", sprint_cutoff + d, "Z") : d \in {-1, 0, 1}}
        \cup {DateString("iso", sprint_cutoff + d, "+01:00") : d \in {0, 1}}
        \cup {DateString("iso", sprint_cutoff + 1, "none")}

\* Discovered lists of up to NumCommits entries, entry i with SHA i.
RECURSIVE DiscoveredLists(_)
DiscoveredLists(n) ==
    IF n = 0
    THEN {<<>>}
    ELSE LET shorter == DiscoveredLists(n - 1)
         IN  shorter \cup
             {Append(l, [sha |-> n, date |-> d]) :
                 l \in {x \in shorter : Len(x) = n - 1}, d \in DateStrings}

InitPartition ==
    /\ args \in {<<l>> : l \in DiscoveredLists(NumCommits)}
    /\ result = <<>>
    /\ fetch = NoFetch
    /\ requests = 0
    /\ repos = 1
    /\ upstream = UpstreamList(0, 0)
    /\ commits = {}
    /\ NoSessions
    /\ limiter = global_rate_limiter
    /\ LimiterAtRest
    /\ stream = NoStream
    /\ current_user = "manager"
    /\ NoProbes

SplitCommits ==
    /\ result = <<>>
    /\ result' = <<split(args[1], 1, [sprint |-> <<>>, archive |-> <<>>])>>
    /\ UNCHANGED <<background, limiter, callers, returns, stream, args, fetch, web>>

SpecPartition == InitPartition /\ [][SplitCommits]_vars

\* The claim's rule: the date denotes an instant and that instant is at or
\* after the cutoff.  A string without offset denotes no instant.
DenotesInstant(date) == date.text = "iso" /\ date.zone # "none"

InstantOf(date) == date.at - (IF date.zone = "+01:00" THEN 1 ELSE 0)

InSprintWindow(c) == DenotesInstant(c.date) /\ InstantOf(c.date) >= Now - sprint_days

\* C30: the two lists are disjoint and together hold every discovered commit
\* exactly once; a commit is in sprint iff its date parses and is at or after
\* the cutoff, every commit with a missing or unparsable date is in archive,
\* and each list keeps the order of the discovered list.
C30_PartitionExact ==
    result # <<>> =>
        LET all == args[1]
            lists == result[1]
        IN  /\ \A i \in 1..Len(all) :
                   /\ Occurrences(lists.sprint, all[i])
                          + Occurrences(lists.archive, all[i]) = 1
                   /\ Occurrences(lists.sprint, all[i]) = 1 <=> InSprintWindow(all[i])
                   /\ ~DenotesInstant(all[i].date)
                          => Occurrences(lists.archive, all[i]) = 1
            /\ Len(lists.sprint) + Len(lists.archive) = Len(all)
            /\ lists.sprint = SelectSeq(all, LAMBDA c : Occurrences(lists.sprint, c) = 1)
            /\ lists.archive = SelectSeq(all, LAMBDA c : Occurrences(lists.archive, c) = 1)

\* A list of a commit at the cutoff, one without date and one just before
\* the cutoff has been split.
C30_Witness ==
    /\ result # <<>>
    /\ Len(args[1]) = NumCommits
    /\ \E i \in 1..Len(args[1]) :
           /\ args[1][i].date = DateString("iso", sprint_cutoff, "Z")
           /\ result[1].sprint = <<args[1][i]>>
    /\ \E i, j \in 1..Len(result[1].archive) :
           /\ i < j
           /\ result[1].archive[i].date = MissingDate
           /\ result[1].archive[j].date = DateString("iso", sprint_cutoff - 1, "Z")


\* The step of session s that starts the worker pool of a partition.
StartsPartition(s, part) ==
    /\ pc[s] = (IF part = "sprint" THEN "sprint_submit" ELSE "archive_submit")
    /\ pc'[s] = (IF part = "sprint" THEN "sprint_pool" ELSE "archive_pool")

StoredAtStart(s, part) ==
    ShasOf(parts[s][part]) \cap get_existing_commit_shas(row[s].repository_id)

Workers(s, states) == {h \in SHAs : worker[s][h] \in states}

\* C31: a discovered commit whose SHA is stored when its partition starts is
\* skipped: it is counted in skipped and never given to a worker, so no token
\* is acquired and no detail is fetched for it, and neither new_commits nor
\* processed_commits counts it.
C31_StoredIsSkipped ==
    /\ [][\A s \in Sessions : \A part \in {"sprint", "archive"} :
             StartsPartition(s, part) =>
                 /\ \A h \in StoredAtStart(s, part) : worker'[s][h] = "idle"
                 /\ results'[s][part].skipped = Cardinality(StoredAtStart(s, part))
                 /\ forge'[s] = forge[s]
                 /\ progress'[s] = progress[s]]_vars
    /\ [][\A s \in Sessions : \A h \in SHAs :
             worker[s][h] = "idle" /\ worker'[s][h] # "idle" =>
                 \E part \in {"sprint", "archive"} :
                     /\ StartsPartition(s, part)
                     /\ h \in ShasOf(parts[s][part]) \ StoredAtStart(s, part)]_vars
    /\ [](\A s \in Sessions :
             /\ forge[s].acquired = Cardinality(Workers(s, {"acquired"} \cup Finished))
             /\ collected[s] \subseteq Workers(s, Finished)
             /\ progress[s].processed_commits = Cardinality(collected[s])
             /\ row[s].status = "completed" =>
                    row[s].new_commits = Cardinality(Workers(s, {"created"})))

\* A run has completed with a stored sprint commit and a stored archive commit
\* skipped and one commit created.
C31_Witness ==
    \E s \in Sessions :
        /\ row[s].status = "completed"
        /\ results[s].sprint.skipped = 1
        /\ results[s].archive.skipped = 1
        /\ row[s].new_commits = 1
        /\ row[s].processed_commits = 1
        /\ row[s].total_commits = NumCommits
        /\ forge[s].acquired = 1


(***************************************************************************)
(* get_commits_list: paging through the forge's commit list with up to     *)
(* three attempts per page.  The forge holds `pages` pages of commits; its      *)
(* last page may still carry a next link, which leads to an empty page.    *)
(* max_commits = 0 stands for None (both are falsy in the test).           *)
(***************************************************************************)
MaxPages == 2
PerPage == 2
max_attempts == 3
retry_pause == 5

\* The forge's pages: commits numbered in list order, 1..PerPage per page.
RECURSIVE Paged(_, _)
Paged(sizes, first) ==
    IF sizes = <<>>
    THEN <<>>
    ELSE <<[i \in 1..Head(sizes) |-> first + i - 1]>>
             \o Paged(Tail(sizes), first + Head(sizes))

PageSizes == UNION {[1..n -> 1..PerPage] : n \in 0..MaxPages}

ListInputs ==
    {[pages |-> Paged(sizes, 1), trailing |-> trailing, max_commits |-> max] :
        sizes \in PageSizes, trailing \in BOOLEAN, max \in 0..(MaxPages * PerPage)}

\* response.json() of a request for `page`.
PageContent(page) == IF page <= Len(args.pages) THEN args.pages[page] ELSE <<>>

\* "next" in response.links
HasNext(page) == page < Len(args.pages) \/ (page = Len(args.pages) /\ args.trailing)

\* Mutant: the limit is tested once per page, after the whole page.
Collected_WholePage(all_commits, page_commits, max_commits) ==
    [all |-> all_commits \o page_commits,
     full |-> max_commits # 0 /\ Len(all_commits \o page_commits) >= max_commits]

\* for commit in commits: append, return as soon as max_commits are held.
RECURSIVE Collected(_, _, _)
Collected(all_commits, page_commits, max_commits) ==
    IF page_commits = <<>>
    THEN [all |-> all_commits, full |-> FALSE]
    ELSE LET longer == Append(all_commits, Head(page_commits))
         IN  IF max_commits # 0 /\ Len(longer) >= max_commits
             THEN [all |-> longer, full |-> TRUE]
             ELSE Collected(longer, Tail(page_commits), max_commits)

ListCall ==
    /\ "pages" \in DOMAIN args
    /\ fetch.at = "idle"
    /\ fetch' = [NoFetch EXCEPT !.at = "request", !.page = 1]
    /\ UNCHANGED <<background, limiter, callers, returns, stream, args, result, web>>

\* requests.get or raise_for_status raises RequestException: sleep 5 s and
\* try again, re-raise on the third attempt.
ListRequestFails ==
    /\ fetch.at = "request"
    /\ fetch' = IF fetch.attempt = max_attempts - 1
                THEN [fetch EXCEPT !.at = "raised"]
                ELSE [fetch EXCEPT !.attempt = @ + 1, !.pause = @ + retry_pause]
    /\ UNCHANGED <<background, limiter, callers, returns, stream, args, result, web>>

\* The request is answered: the rest of the while body.
ListRequestOk ==
    /\ fetch.at = "request"
    /\ LET page_commits == PageContent(fetch.page)
           got == Collected(fetch.all_commits, page_commits, args.max_commits)
           seen == [fetch EXCEPT !.pages = @ + 1, !.all_commits = got.all]
       IN  IF page_commits = <<>>
           THEN /\ fetch' = [seen EXCEPT !.at = "returned", !.stopped = "empty"]
                /\ result' = <<got.all>>
           ELSE IF got.full
           THEN /\ fetch' = [seen EXCEPT !.at = "returned", !.stopped = "max"]
                /\ result' = <<got.all>>
           ELSE IF HasNext(fetch.page)
           THEN /\ fetch' = [seen EXCEPT !.page = @ + 1, !.attempt = 0, !.pause = 0]
                /\ UNCHANGED result
           ELSE /\ fetch' = [seen EXCEPT !.at = "returned", !.stopped = "no_next"]
                /\ result' = <<got.all>>
    /\ UNCHANGED <<background, limiter, callers, returns, stream, args, web>>

get_commits_list == ListCall \/ ListRequestFails \/ ListRequestOk

InitList ==
    /\ args \in ListInputs
    /\ result = <<>>
    /\ fetch = NoFetch
    /\ requests = 0
    /\ repos = 1
    /\ upstream = UpstreamList(0, 0)
    /\ commits = {}
    /\ NoSessions
    /\ limiter = global_rate_limiter
    /\ LimiterAtRest
    /\ stream = NoStream
    /\ current_user = "manager"
    /\ NoProbes

SpecList == InitList /\ [][get_commits_list]_vars

RECURSIVE Flat(_)
Flat(pages) == IF pages = <<>> THEN <<>> ELSE Head(pages) \o Flat(Tail(pages))

\* The commits of the first n pages the forge holds, in page order.
FirstPages(n) == Flat(SubSeq(args.pages, 1, Min(n, Len(args.pages))))

\* Attempts, pauses, the propagated failure and the three ways paging stops.
ListAttemptsAndStops ==
    /\ [](fetch.attempt < 3)
    /\ [][fetch.at = "request" /\ fetch'.all_commits = fetch.all_commits
              /\ fetch'.pages = fetch.pages /\ fetch' # fetch =>
             IF fetch.attempt < 2
             THEN /\ fetch'.at = "request"
                  /\ fetch'.page = fetch.page
                  /\ fetch'.attempt = fetch.attempt + 1
                  /\ fetch'.pause = fetch.pause + 5
             ELSE fetch'.at = "raised" /\ result' = <<>>]_vars
    /\ [](fetch.at = "raised" => result = <<>>)
    /\ [][fetch.at = "request" /\ fetch'.pages = fetch.pages + 1 =>
             LET page_commits == PageContent(fetch.page)
                 held == Len(fetch.all_commits) + Len(page_commits)
             IN  (fetch'.at = "returned")
                     <=> \/ page_commits = <<>>
                         \/ ~HasNext(fetch.page)
                         \/ args.max_commits > 0 /\ held >= args.max_commits]_vars

\* C32 as stated: with the above, the returned list holds the commits of all
\* fetched pages in page order.
C32_ListIsAllFetchedPages ==
    /\ ListAttemptsAndStops
    /\ [](fetch.at = "returned" => result = <<FirstPages(fetch.pages)>>)

\* C32: each page is attempted at most 3 times, with a 5 s pause before a
\* retry; the third failure propagates and nothing is returned; paging stops
\* exactly on an empty page, a missing next link or max commits; the returned
\* list holds the commits of all fetched pages in page order, cut after the
\* max-th commit when max is reached.
C32_ListIsFetchedPagesUpToMax ==
    /\ ListAttemptsAndStops
    /\ [](fetch.at = "returned" =>
             LET fetched == FirstPages(fetch.pages)
             IN  result = <<IF fetch.stopped = "max"
                            THEN SubSeq(fetched, 1, args.max_commits)
                            ELSE fetched>>)

\* Two pages were fetched, the second after two failed attempts, and the
\* list was cut at max_commits = 3 inside the second page.
C32_Witness ==
    /\ fetch.at = "returned"
    /\ fetch.pages = 2
    /\ fetch.attempt = 2
    /\ fetch.pause = 10
    /\ fetch.stopped = "max"
    /\ result = <<<<1, 2, 3>>>>
    /\ Len(FirstPages(2)) = 4


(***************************************************************************)
(* The per-commit detail fetch against a forge that fails a request now    *)
(* and then.                                                               *)
(***************************************************************************)
\* get_commit: one requests.get; raise_for_status or the transport raises and
\* nothing catches it before the as_completed loop.
get_commit_fails(s, h) ==
    /\ worker[s][h] = "acquired"
    /\ Entry(h).author
    /\ h \notin forge[s].refused
    /\ forge' = [forge EXCEPT ![s].http = @ + 1, ![s].refused = @ \cup {h}]
    /\ worker' = [worker EXCEPT ![s][h] = "raised"]
    /\ UNCHANGED <<aside, requests, upstream, commits, row, pc, progress, parts, results,
                   collected, raised, dbUp>>

NextTransient == Next \/ \E s \in Sessions, h \in SHAs : get_commit_fails(s, h)

SpecTransient == Init /\ [][NextTransient]_vars

\* C33: a detail fetch that fails is tried again: a commit whose detail
\* request failed once does not fail its worker for that, so it produces no
\* session error.
C33_DetailFetchRetried ==
    \A s \in Sessions : \A h \in forge[s].refused :
        /\ worker[s][h] # "raised"
        /\ CommitError(h) \notin {progress[s].errors[i] : i \in 1..Len(progress[s].errors)}


(***************************************************************************)
(* sync_team_repos and _sync_repository_background: the settings a run is  *)
(* started with, for a team with stored analysis and workflow documents.   *)
(***************************************************************************)
Other == <<"o", "t", "h", "e", "r">>

DEFAULT_ANALYSIS_CONFIG ==
    [file_filters |-> Dict([exclude_hidden |-> Boolean(TRUE)]),
     commit_classification |->
         Dict([default_category |-> Str(Other), rules |-> List(<<Feature, Bugfix>>)])]

\* A document with the key absent or bound to one of the values.
Optional(key, values) == {<<>>} \cup {key :> v : v \in values}

\* team.analysis_config: nothing stored, or a commit_classification mapping
\* that sets some of its keys.
StoredAnalysis ==
    {<<>>} \cup
    {"commit_classification" :> Dict(c @@ r) :
        c \in Optional("default_category", {Str(Other), Str(<<"m", "i", "s", "c">>)}),
        r \in Optional("rules", {List(<<>>), List(<<Docs>>), List(<<Bugfix, Chore>>)})}

\* team.workflow_config: nothing stored, or a sprint mapping.
StoredWorkflow ==
    {<<>>} \cup
    {"sprint" :> Dict(e @@ d) :
        e \in Optional("enabled", {Boolean(TRUE), Boolean(FALSE)}),
        d \in Optional("duration_days", {Number(7), Number(14), Number(30)})}

\* The document that the settings string of sync_team_repos encodes.
dispatched_settings(stored_analysis) ==
    [commit_classification |->
        Get(stored_analysis, "commit_classification",
            DEFAULT_ANALYSIS_CONFIG.commit_classification)]

InitSettings ==
    /\ args \in {[analysis_config |-> a, workflow_config |-> w] :
                    a \in StoredAnalysis, w \in StoredWorkflow}
    /\ result = <<>>
    /\ fetch = NoFetch
    /\ requests = 0
    /\ repos = 1
    /\ upstream = UpstreamList(0, 0)
    /\ commits = {}
    /\ NoSessions
    /\ limiter = global_rate_limiter
    /\ LimiterAtRest
    /\ stream = NoStream
    /\ current_user = "manager"
    /\ NoProbes

\* The dispatch builds the settings; the run is started with them and with
\* sprint_days=14; detect reads its rules under the key commit_rules.
StartWithSettings ==
    /\ "analysis_config" \in DOMAIN args
    /\ result = <<>>
    /\ LET settings == dispatched_settings(args.analysis_config)
       IN  result' = <<[settings |-> settings,
                        sprint_days |-> sprint_days,
                        commit_rules |-> Get(settings, "commit_rules", <<>>)]>>
    /\ UNCHANGED <<background, limiter, callers, returns, stream, args, fetch, web>>

SpecSettings == InitSettings /\ [][StartWithSettings]_vars

\* C34: the run uses the team's effective settings: the classification
\* settings are the commit_classification subtree of merge(defaults, stored),
\* they are what the classifier reads its rules from, and the sprint length
\* is the team's configured duration, 14 when none is configured.
C34_EffectiveSettingsUsed ==
    result # <<>> =>
        LET analysis == Merged(DEFAULT_ANALYSIS_CONFIG, args.analysis_config)
            workflow == Merged(DEFAULT_WORKFLOW_CONFIG, args.workflow_config)
        IN  /\ result[1].settings.commit_classification = analysis.commit_classification
            /\ result[1].commit_rules = analysis.commit_classification.value
            /\ result[1].sprint_days = workflow.sprint.value.duration_days.value


(***************************************************************************)
(* get_sprint_stats in N-day mode: the daily buckets and the summary, on   *)
(* the commits fetched for the window.  Time is counted in parts of a day. *)
(***************************************************************************)
MaxDays == 2
DayParts == 2

\* datetime.date(): the calendar day of an instant.
date(instant) == instant \div DayParts

\* timedelta(days=n)
timedelta(n) == n * DayParts

\* since_dt = until_dt - timedelta(days=sprint_days)
since_dt(until_dt, days) == until_dt - timedelta(days)

\* One empty bucket per i in range(sprint_days), keyed by the day of
\* since_dt + i days.
empty_buckets(until_dt, days) ==
    [day \in {date(since_dt(until_dt, days) + timedelta(i)) : i \in 0..(days - 1)} |-> 0]

\* The loop that fills the buckets: a commit without authored_at or with a
\* day that has no bucket is passed over.
RECURSIVE fill_commits(_, _)
fill_commits(daily, fetched) ==
    IF fetched = <<>>
    THEN daily
    ELSE LET authored_at == Head(fetched)
         IN  IF authored_at = NoDate \/ date(authored_at) \notin DOMAIN daily
             THEN fill_commits(daily, Tail(fetched))
             ELSE fill_commits([daily EXCEPT ![date(authored_at)] = @ + 1], Tail(fetched))

RECURSIVE SumOver(_, _)
SumOver(f, keys) ==
    IF keys = {}
    THEN 0
    ELSE LET k == CHOOSE x \in keys : TRUE
         IN  f[k] + SumOver(f, keys \ {k})

\* Requests at any part of a day, for 1..MaxDays days, with up to NumCommits
\* fetched commits authored inside [since_dt, until_dt] or without a date.
StatsInputs(max_days) ==
    UNION {
        {[days |-> days, until_dt |-> until_dt, fetched |-> fetched] :
            fetched \in SeqsUpTo({NoDate} \cup (since_dt(until_dt, days)..until_dt),
                                 NumCommits)} :
        days \in 1..max_days,
        until_dt \in timedelta(max_days)..(timedelta(max_days + 1) - 1)}

InitStats ==
    /\ args \in StatsInputs(MaxDays)
    /\ result = <<>>
    /\ fetch = NoFetch
    /\ requests = 0
    /\ repos = 1
    /\ upstream = UpstreamList(0, 0)
    /\ commits = {}
    /\ NoSessions
    /\ limiter = global_rate_limiter
    /\ LimiterAtRest
    /\ stream = NoStream
    /\ current_user = "manager"
    /\ NoProbes

get_sprint_stats ==
    /\ "fetched" \in DOMAIN args
    /\ result = <<>>
    /\ LET daily == fill_commits(empty_buckets(args.until_dt, args.days), args.fetched)
       IN  result' = <<[daily |-> daily,
                        total_commits |-> SumOver(daily, DOMAIN daily),
                        active_days |-> Cardinality({d \in DOMAIN daily : daily[d] > 0})]>>
    /\ UNCHANGED <<background, limiter, callers, returns, stream, args, fetch, web>>

SpecStats == InitStats /\ [][get_sprint_stats]_vars

\* C35: the buckets cover every calendar day of [since, until], every
\* fetched commit authored in that range is in exactly one bucket, so
\* summary.total_commits is the number of those commits, and active_days is
\* the number of buckets with at least one commit.
C35_BucketsCoverWindow ==
    result # <<>> =>
        LET since == args.until_dt - args.days * DayParts
            dated == SelectSeq(args.fetched,
                               LAMBDA a : a # NoDate /\ since <= a /\ a <= args.until_dt)
        IN  /\ DOMAIN result[1].daily = {t \div DayParts : t \in since..args.until_dt}
            /\ \A i \in 1..Len(dated) : (dated[i] \div DayParts) \in DOMAIN result[1].daily
            /\ result[1].total_commits = Len(dated)
            /\ result[1].active_days =
                   Cardinality({d \in DOMAIN result[1].daily : result[1].daily[d] >= 1})


(***************************************************************************)
(* The Developer Quality Index of the contributor ranking.  A quality      *)
(* index is counted in tenths: 1000 is 100.0.                              *)
(***************************************************************************)
MaxTotal == 8
MaxShared == 5

\* Only the type feat counted as a feature.
FEATURE_TYPES_FeatOnly == {"feat"}

FEATURE_TYPES == {"feat", "perf", "refactor"}

\* The commit types that occur in the accumulators of the model.
AccumulatedTypes == {"feat", "perf", "fix", "chore"}

Logins == <<"alice", "bob">>

\* commits_by_type.get(t, 0)
get_count(commits_by_type, t) ==
    IF t \in DOMAIN commits_by_type THEN commits_by_type[t] ELSE 0

\* round(x, 1) of the quotient num / den, in tenths.  The quotient is a
\* binary float: when it lies halfway between two tenths the float error
\* decides the direction, which is either one (up chooses it).
round_1(num, den, up) ==
    LET lo == num \div den
        rem == num % den
    IN  IF 2 * rem < den THEN lo
        ELSE IF 2 * rem > den THEN lo + 1
        ELSE IF up THEN lo + 1 ELSE lo

\* _calc_dqi: the three ratios are brought to the common denominator
\* total_commits * denominator, and min(dqi, 100.0) is taken before rounding.
calc_dqi(commits_by_type, total_commits, significant_commits, up) ==
    IF total_commits = 0
    THEN 0
    ELSE LET feat_count == SumOver([t \in FEATURE_TYPES |-> get_count(commits_by_type, t)],
                                   FEATURE_TYPES)
             fix_count == get_count(commits_by_type, "fix")
             denominator == feat_count + fix_count
             den == total_commits * (IF denominator > 0 THEN denominator ELSE 1)
             functional == 500 * feat_count * (den \div total_commits)
             not_bug == IF denominator > 0
                        THEN 300 * (den - fix_count * (den \div denominator))
                        ELSE 300 * den
             significant == 200 * significant_commits * (den \div total_commits)
             dqi == functional + not_bug + significant
         IN  IF dqi > 1000 * den
             THEN 1000
             ELSE round_1(dqi, den, up)

\* contributors_list.sort(key=quality_index, reverse=True): a stable sort,
\* equal indexes keep their order.
RECURSIVE sort_by_quality(_)
sort_by_quality(list) ==
    IF list = <<>>
    THEN <<>>
    ELSE LET sorted == sort_by_quality(SubSeq(list, 1, Len(list) - 1))
             last == list[Len(list)]
             before == SelectSeq(sorted, LAMBDA c : c.quality_index >= last.quality_index)
             after == SelectSeq(sorted, LAMBDA c : c.quality_index < last.quality_index)
         IN  before \o <<last>> \o after

\* The accumulators with total_commits = t: every commit has one type and
\* is significant or not.
AccumulatorsOf(t) ==
    {[total_commits |-> t, commits_by_type |-> by_type, significant_commits |-> significant] :
        by_type \in {f \in [AccumulatedTypes -> 0..t] : SumOver(f, AccumulatedTypes) = t},
        significant \in 0..t}

\* The statistics of one contributor with up to total commits, or of two
\* contributors with up to shared commits between them.
ContributorStats(total, shared) ==
    UNION {{<<a>> : a \in AccumulatorsOf(t)} : t \in 0..total}
    \cup UNION {UNION {{<<a, b>> : a \in AccumulatorsOf(t1), b \in AccumulatorsOf(t2)} :
                         t2 \in 1..(shared - t1)} :
                  t1 \in 1..shared}

InitRanking ==
    /\ result = <<>>
    /\ fetch = NoFetch
    /\ requests = 0
    /\ repos = 1
    /\ upstream = UpstreamList(0, 0)
    /\ commits = {}
    /\ NoSessions
    /\ limiter = global_rate_limiter
    /\ LimiterAtRest
    /\ stream = NoStream
    /\ current_user = "manager"
    /\ NoProbes
    /\ args \in {[contributor_stats |-> stats] : stats \in ContributorStats(MaxTotal, MaxShared)}

\* Build contributor ranking: one entry per accumulator with its index,
\* then the sort.
build_ranking ==
    /\ "contributor_stats" \in DOMAIN args
    /\ result = <<>>
    /\ \E ups \in [DOMAIN args.contributor_stats -> BOOLEAN] :
           result' = <<sort_by_quality(
               [i \in DOMAIN args.contributor_stats |->
                   LET cs == args.contributor_stats[i]
                   IN  [login |-> Logins[i],
                        total_commits |-> cs.total_commits,
                        commits_by_type |-> cs.commits_by_type,
                        significant_commits |-> cs.significant_commits,
                        quality_index |-> calc_dqi(cs.commits_by_type, cs.total_commits,
                                                   cs.significant_commits, ups[i])]])>>
    /\ UNCHANGED <<background, limiter, callers, returns, stream, args, fetch, web>>

SpecRanking == InitRanking /\ [][build_ranking]_vars

\* The counts the formula is stated on.
FeatOf(c) == c.commits_by_type["feat"] + c.commits_by_type["perf"]
FixOf(c) == c.commits_by_type["fix"]

\* q tenths is the value (0.5*feat/total + 0.3*(1 - fix/(feat+fix)) +
\* 0.2*significant/total)*100 rounded to one decimal: ten times the value
\* is within one half of q.  All terms are multiplied by 2*total*(feat+fix).
IsRoundedIndex(q, feat, fix, total, significant) ==
    LET both == IF feat + fix = 0 THEN 1 ELSE feat + fix
        kept == IF feat + fix = 0 THEN 1 ELSE feat
        value == 1000 * feat * both + 600 * kept * total + 400 * significant * both
        scaled == 2 * q * total * both
    IN  /\ value - scaled <= total * both
        /\ scaled - value <= total * both

\* C36: every entry of the ranking carries the formula's value rounded to
\* one decimal, within [0, 100], 0 for no commits, 100.0 for only
\* significant feat commits, and the list is in non-increasing order.
C36_QualityIndex ==
    result # <<>> =>
        LET list == result[1]
        IN  /\ Len(list) = Len(args.contributor_stats)
            /\ \A i \in 1..Len(list) :
                   LET c == list[i]
                   IN  /\ c.quality_index \in 0..1000
                       /\ c.total_commits = 0 => c.quality_index = 0
                       /\ c.total_commits > 0 =>
                              IsRoundedIndex(c.quality_index, FeatOf(c), FixOf(c),
                                             c.total_commits, c.significant_commits)
                       /\ (c.total_commits > 0 /\ FeatOf(c) = c.total_commits
                               /\ c.significant_commits = c.total_commits)
                              => c.quality_index = 1000
            /\ \A i \in 1..(Len(list) - 1) : list[i].quality_index >= list[i + 1].quality_index

\* Two contributors are ranked against their order of appearance, and the
\* first of them has perf commits.
C36_Witness ==
    /\ result # <<>>
    /\ Len(result[1]) = 2
    /\ result[1][1].login = "bob"
    /\ result[1][1].quality_index > result[1][2].quality_index
    /\ result[1][1].commits_by_type["perf"] > 0
    /\ result[1][2].commits_by_type["fix"] > 0

\* A lone contributor's value lies halfway between two tenths (61.25 for
\* five feature commits in eight) and is rounded up.
C36_WitnessHalfway ==
    /\ result # <<>>
    /\ Len(result[1]) = 1
    /\ result[1][1].total_commits = 8
    /\ result[1][1].quality_index = 613

(***************************************************************************)
(* RateLimiter.get_status, called by any thread next to acquire.           *)
(***************************************************************************)
\* A thread calls get_status() and reaches `with self.lock`.
StatusCall(t) ==
    /\ callers[t].at = "idle"
    /\ callers' = [callers EXCEPT ![t] = [at |-> "status", tokens |-> 0, sleep |-> 0]]
    /\ UNCHANGED <<background, limiter, returns, stream, call, web>>

\* The lock is granted: _refill_tokens, the answer is built, the lock is
\* released.
StatusReturn(t) ==
    /\ callers[t].at = "status"
    /\ limiter.lock = 0
    /\ limiter' = refill_tokens(limiter)
    /\ callers' = [callers EXCEPT ![t] = Idle]
    /\ UNCHANGED <<background, returns, stream, call, web>>

get_status(t) == StatusCall(t) \/ StatusReturn(t)

NextStatus == NextLimiter \/ \E t \in Threads : get_status(t)

SpecStatus == InitLimiter /\ [][NextStatus]_vars

\* The threads that hold the lock inside acquire.
InsideAcquire == {t \in Threads : callers[t].at \in {"waiting", "pacing"}}

\* C37: the tokens stay within 0..capacity, a step never raises them above
\* the capacity, and they go down only by the n of a caller that found at
\* least n of them.
C37_TokensWithinCapacity ==
    /\ [](limiter.tokens \in 0..limiter.max_requests)
    /\ [][limiter'.tokens < limiter.tokens =>
             \E t \in Threads :
                 /\ callers[t].at \in {"blocked", "waiting"}
                 /\ callers'[t].at = "pacing"
                 /\ refill_tokens(limiter).tokens >= callers[t].tokens
                 /\ limiter'.tokens = refill_tokens(limiter).tokens - callers[t].tokens]_vars

\* A status call and an acquire are both in progress with no token left.
C37_Witness ==
    /\ limiter.tokens = 0
    /\ \E t, u \in Threads : callers[t].at = "status" /\ callers[u].at = "waiting"

\* A status call is about to refill a full bucket: the capacity cuts it.
C37_WitnessCut ==
    /\ limiter.tokens = limiter.max_requests
    /\ limiter.since_refill >= TicksPerSecond
    /\ limiter.tokens + (limiter.since_refill * limiter.max_requests) \div WindowTicks(limiter)
           > limiter.max_requests
    /\ \E t \in Threads : callers[t].at = "status"



\* C38: a thread that is inside acquire holds the lock from its grant to its
\* return, so at most one thread is inside; two consecutive returns of
\* acquire are at least the pacing delay apart; and get_status does not
\* return while a thread is inside acquire.
C38_LockHeldThroughAcquire ==
    /\ [](/\ Cardinality(InsideAcquire) <= 1
          /\ \A t \in InsideAcquire : limiter.lock = t
          /\ \A i \in 1..(Len(returns) - 1) :
                 returns[i] - returns[i + 1] >= limiter.min_delay)
    /\ [][/\ (limiter.lock # 0 /\ limiter'.lock # limiter.lock) =>
                 /\ callers[limiter.lock].at = "pacing"
                 /\ callers[limiter.lock].sleep = 0
                 /\ callers'[limiter.lock].at = "idle"
                 /\ returns' = Append(returns, 0)
          /\ \A t \in Threads :
                 (callers[t].at = "status" /\ callers'[t].at = "idle") =>
                     InsideAcquire = {}]_vars

\* A status call waits for the lock while an acquire that came after
\* another's return sleeps its pacing delay.
C38_Witness ==
    /\ returns # <<>>
    /\ \E t, u \in Threads : callers[t].at = "status" /\ callers[u].at = "pacing"



\* The fields of a row that progress updates leave alone.
Settled(r) ==
    <<r.status, r.repository_id, r.new_commits, r.errors, r.result, r.started_at,
      r.completed_at>>

\* C39: between its start and its terminal status a session's row changes
\* only in total_commits, processed_commits, current_phase and
\* sprint_commits_done; until then the row, and every snapshot the stream
\* sends of it, has new_commits = 0 and no errors; the step that completes
\* the session writes new_commits, errors, result and completed_at together.
C39_ProgressFrame ==
    /\ [](/\ \A s \in Sessions :
                 row[s].status \in Active =>
                     /\ row[s].new_commits = 0
                     /\ row[s].errors = <<>>
                     /\ row[s].result = <<>>
                     /\ row[s].completed_at = FALSE
          /\ \A i \in 1..Len(stream.out) :
                 (stream.out[i].event = "data" /\ stream.out[i].data[1].status \in Active) =>
                     /\ stream.out[i].data[1].new_commits = 0
                     /\ stream.out[i].data[1].errors = <<>>)
    /\ [][\A s \in Sessions :
             /\ (row[s].status = "running" /\ row'[s].status = "running") =>
                    Settled(row'[s]) = Settled(row[s])
             /\ (row[s].status \in Active /\ row'[s].status = "completed") =>
                    /\ row'[s].result = <<SyncResult(s)>>
                    /\ row'[s].new_commits = SyncResult(s).new_commits
                    /\ row'[s].errors = SyncResult(s).errors
                    /\ row'[s].completed_at = TRUE
             /\ (row[s].status \in Active /\ row'[s].status = "failed") =>
                    /\ row'[s].new_commits = 0
                    /\ row'[s].errors # <<>>
                    /\ row'[s].completed_at = TRUE]_vars

\* A running session has stored a commit and collected an error, its row
\* shows the progress, and the stream has sent a snapshot of it.
C39_Witness ==
    \E s \in Sessions :
        /\ row[s].status = "running"
        /\ row[s].processed_commits > 1
        /\ progress[s].errors # <<>>
        /\ results[s].sprint.new + results[s].archive.new > 0
        /\ stream.sent # <<>>
        /\ stream.sent[1].status = "running"
        /\ stream.sent[1].processed_commits > 1



\* The discovered SHAs whose list entry has no author object.
NoAuthor == {h \in SHAs : ~Entry(h).author}

\* C40: a worker given a commit without author has taken a token, ends
\* without a forge request and without a row, and is counted processed but
\* not new; the SHA is never stored, so each run that discovers it submits
\* it again.
C40_NoAuthorNeverStored ==
    /\ [](/\ NoAuthor \cap get_existing_commit_shas(1) = {}
          /\ \A s \in Sessions :
                 /\ forge[s].acquired >= Cardinality(Workers(s, {"noauthor"}))
                 /\ Workers(s, {"created", "raised"}) \cap NoAuthor = {}
                 /\ results[s].new_count <= Cardinality(collected[s] \ NoAuthor))
    /\ [][\A s \in Sessions : \A h \in NoAuthor :
             /\ (worker[s][h] = "submitted" /\ worker'[s][h] # "submitted") =>
                    /\ worker'[s][h] = "acquired"
                    /\ forge'[s].acquired = forge[s].acquired + 1
             /\ (worker[s][h] = "acquired" /\ worker'[s][h] # "acquired") =>
                    /\ worker'[s][h] = "noauthor"
                    /\ forge'[s].http = forge[s].http
                    /\ commits' = commits
             /\ (h \in collected'[s] /\ h \notin collected[s]) =>
                    /\ progress'[s].processed_commits = progress[s].processed_commits + 1
                    /\ results'[s].new_count = results[s].new_count
                    /\ progress'[s].errors = progress[s].errors
             /\ \A part \in {"sprint", "archive"} :
                    (StartsPartition(s, part) /\ h \in ShasOf(parts[s][part])) =>
                        worker'[s][h] = "submitted"]_vars

\* Two runs have completed one after the other, and each has given the same
\* commit without author to a worker and counted it processed.
C40_Witness ==
    \E h \in NoAuthor :
        /\ row[1].status = "completed" /\ row[2].status = "completed"
        /\ worker[1][h] = "noauthor" /\ worker[2][h] = "noauthor"
        /\ h \in collected[1] /\ h \in collected[2]
        /\ row[2].processed_commits >= 1
        /\ row[2].new_commits = 0
        /\ forge[2].acquired >= 1

====
